---- MODULE Spec2Model ----
(***************************************************************************)
(* Motion execution subsystem of the rail positioner: the PS100 motor      *)
(* arbiter (drivers/ps100.cpp, kept in pwm_motor.hpp), the PWM step        *)
(* backend (drivers/pwm_motor.cpp) and the PIO/DMA executor                *)
(* (pio/pio_exec.cpp).                                                     *)
(*                                                                         *)
(* Every C++ function is an operator from a machine state (a record with   *)
(* one field per variable below) to the machine state it leaves behind,    *)
(* so that a function calling another one is the composition of the two.   *)
(* An action applies one public operation, interrupt or clock advance to   *)
(* the current state.                                                      *)
(*                                                                         *)
(* The module also holds the timer-driven Arduino firmware                 *)
(* (arduino/SerialMotor/serialMotor_pmw.ino): its frame decoder, its two   *)
(* DM542 motors and the two hardware timers; and the host-side trajectory  *)
(* engine (rail_pose_engine).  Each of the three has its own variables and *)
(* its own specification; the actions of one leave the others alone.       *)
(***************************************************************************)
EXTENDS Integers, Sequences, FiniteSets, TLC

VARIABLES
    now,                \* get_absolute_time(), microseconds since boot
    inited,             \* PS100_P::init() has run
    com1_reason,        \* PS100_P::com1_reason_
    com2_state,         \* PS100_P::com2_state_
    com2_t_end,         \* PS100_P::com2_t_end_
    g_backend,          \* g_backend[pio_index(cfg.pio)][cfg.sm]
    pin_func,           \* function select of the STEP pin
    sio_low,            \* STEP pin's SIO side is an output driving 0
    pwm_enabled,        \* per slice: CSR.EN
    pwm_irq_enabled,    \* per slice: INTE bit
    pwm_irq_pending,    \* per slice: INTR bit
    remaining_steps,    \* pwm_motor.cpp remaining_steps[]
    active_slice_mask,  \* pwm_motor.cpp active_slice_mask, as a set of slices
    rmw,                \* the main thread inside "active_slice_mask |=" or
                        \* "&=": the statement, its slice, the value loaded
    irq_installed,      \* pwm_motor_init's static irq_installed
    sm_enabled,         \* the arbiter's PIO state machine is enabled
    sm_steps,           \* steps the state machine still has to emit
    dma_free,           \* DMA channels dma_claim_unused_channel can still give
    probe,              \* pulse counter on the PWM output: [n, count]
    peer,               \* a second PS100_P, on the other slice and its own SM
    last,               \* the last operation, its arguments and its result
    \* ---- serialMotor_pmw.ino ----
    pc,                 \* where main() is: setup, readSerial, update0, update1
    micros,             \* micros(), a 32-bit word
    serial_rx,          \* bytes the UART has received and readSerial has not read
    serial_tx,          \* the lines printed on Serial
    receiving,          \* bool receiving
    index,              \* uint8_t index
    buffer,             \* uint8_t buffer[FRAME_LENGTH]
    motors,             \* DM542 motors[NUM_MOTORS]
    timers,             \* Timer1 (motor 0, D9) and Timer2 (motor 1, D11)
    host,               \* the sender: the items it has sent, bytes of the last
    seen,               \* what the decoder has done with the bytes it has read
    pulses,             \* per motor: STEP pulses since its last command
    \* ---- rail_pose_engine ----
    session_start_abs,  \* the session's anchor, -1 while it is None
    segments,           \* per axis: the list of trajectory segments
    t_fed,              \* timestamp of the last feed(), -1 before the first
    preset_steps,       \* per axis: the preset offset, in steps
    pose                \* per axis: what the last call returned, if pose_at()

psvars == << now, inited, com1_reason, com2_state, com2_t_end, g_backend,
             pin_func, sio_low, pwm_enabled, pwm_irq_enabled, pwm_irq_pending,
             remaining_steps, active_slice_mask, rmw, irq_installed,
             sm_enabled,
             sm_steps, dma_free, probe, peer >>

fwvars == << pc, micros, serial_rx, serial_tx, receiving, index, buffer,
             motors, timers, host, seen, pulses >>

trajvars == << session_start_abs, segments, t_fed, preset_steps, pose >>

vars == << psvars, last, fwvars, trajvars >>

(***************************************************************************)
(* Bounds of the exploration.                                              *)
(***************************************************************************)
MaxSteps == 2
MaxTime == 1
MaxFreeDma == 1

(***************************************************************************)
(* Program constants.                                                      *)
(***************************************************************************)
STEP_PIN == 3
NUM_PWM_SLICES == 8
F_SYS == 125000000
US_PER_S == 1000000

\* pwm_gpio_to_slice_num(pin)
pwm_slice(pin) == (pin \div 2) % NUM_PWM_SLICES

MotorSlice == pwm_slice(STEP_PIN)
\* a slice used by some other PWM user of the chip
OtherSlice == (MotorSlice + 1) % NUM_PWM_SLICES
Slices == {MotorSlice, OtherSlice}

StepsSet == 0 .. MaxSteps
HzSet == {0, 1500000}
VelHzSet == {0, 400, 1000}
MsSet == {0, 1}
Backends == {"PWM", "PIO"}

Reasons == {"Completed", "Interrupted", "Stopped"}
Trackers == {"None", "PWM", "PIO_PARAM", "PIO_STREAM"}

\* the streams a caller hands to run_pio_stream: a null or real pointer, the
\* words (duty, steps, duty, steps, ...) and the estimated duration
StreamInputs ==
    << [null |-> TRUE,  words |-> << >>,               est |-> 1],
       [null |-> FALSE, words |-> << >>,               est |-> 1],
       [null |-> FALSE, words |-> <<62497, 1, 0, 0>>,  est |-> 0],
       [null |-> FALSE, words |-> <<62497, 2, 0, 0>>,  est |-> 1],
       [null |-> FALSE, words |-> <<62497, 1>>,        est |-> 2] >>

Min(a, b) == IF a < b THEN a ELSE b

\* the main thread is not inside a read-modify-write of active_slice_mask
NoRmw == [at |-> "-", slice |-> 0, reg |-> {}]

(***************************************************************************)
(* The machine state as one record.  Its field hw is the log of the driver *)
(* and SDK calls an operation makes; it starts empty for every operation   *)
(* and is not kept between operations.                                     *)
(***************************************************************************)
Cur ==
    [ now |-> now, inited |-> inited,
      com1_reason |-> com1_reason, com2_state |-> com2_state,
      com2_t_end |-> com2_t_end, g_backend |-> g_backend,
      pin_func |-> pin_func, sio_low |-> sio_low,
      pwm_enabled |-> pwm_enabled, pwm_irq_enabled |-> pwm_irq_enabled,
      pwm_irq_pending |-> pwm_irq_pending,
      remaining_steps |-> remaining_steps,
      active_slice_mask |-> active_slice_mask, rmw |-> rmw,
      irq_installed |-> irq_installed,
      sm_enabled |-> sm_enabled, sm_steps |-> sm_steps,
      dma_free |-> dma_free, peer |-> peer, hw |-> << >> ]

Becomes(s) ==
    /\ now' = s.now
    /\ inited' = s.inited
    /\ com1_reason' = s.com1_reason
    /\ com2_state' = s.com2_state
    /\ com2_t_end' = s.com2_t_end
    /\ g_backend' = s.g_backend
    /\ pin_func' = s.pin_func
    /\ sio_low' = s.sio_low
    /\ pwm_enabled' = s.pwm_enabled
    /\ pwm_irq_enabled' = s.pwm_irq_enabled
    /\ pwm_irq_pending' = s.pwm_irq_pending
    /\ remaining_steps' = s.remaining_steps
    /\ active_slice_mask' = s.active_slice_mask
    /\ rmw' = s.rmw
    /\ irq_installed' = s.irq_installed
    /\ sm_enabled' = s.sm_enabled
    /\ sm_steps' = s.sm_steps
    /\ dma_free' = s.dma_free
    /\ peer' = s.peer
    /\ UNCHANGED << fwvars, trajvars >>

\* one entry of the call log: a name and two numbers
Call(s, name, a, b) == [s EXCEPT !.hw = Append(@, <<name, a, b>>)]

(***************************************************************************)
(* The pulse counter on the PWM output of the motor's slice.  It is armed  *)
(* with the requested number of pulses when pwm_motor_run starts the       *)
(* slice, counts the wraps of the slice, and is cleared when the run is    *)
(* abandoned (the slice is switched off or initialised by an operation).   *)
(***************************************************************************)
Measure(log) ==
    LET runs == {i \in DOMAIN log : log[i][1] = "pwm_motor_run"
                                       /\ log[i][2] > 0 /\ log[i][3] > 0}
        offs == {i \in DOMAIN log : log[i][1] \in {"pwm_disable", "pwm_init"}
                                       /\ log[i][2] = MotorSlice}
    IN  IF runs # {}
        THEN [n |-> log[CHOOSE i \in runs : \A j \in runs : j <= i][3],
              count |-> 0]
        ELSE IF offs # {} THEN [n |-> 0, count |-> 0]
        ELSE probe

\* an operation of the program leaves state s
Commit(s) == Becomes(s) /\ probe' = Measure(s.hw)

Op(name, a, b, c, ret) == [op |-> name, a |-> a, b |-> b, c |-> c, ret |-> ret]

(***************************************************************************)
(* SDK calls, reduced to their effect on the state above.                  *)
(***************************************************************************)
gpio_set_function(s, f) ==
    [Call(s, "gpio_set_function_" \o f, 0, 0) EXCEPT !.pin_func = f]

pwm_set_enabled(s, slice, en) ==
    [Call(s, IF en THEN "pwm_enable" ELSE "pwm_disable", slice, 0)
        EXCEPT !.pwm_enabled[slice] = en]

pwm_set_irq_enabled(s, slice, en) ==
    [Call(s, IF en THEN "pwm_irq_enable" ELSE "pwm_irq_disable", slice, 0)
        EXCEPT !.pwm_irq_enabled[slice] = en]

pwm_clear_irq(s, slice) ==
    [Call(s, "pwm_clear_irq", slice, 0) EXCEPT !.pwm_irq_pending[slice] = FALSE]

\* INTS: the interrupts that are both raised and enabled
pwm_get_irq_status_mask(s) ==
    {x \in Slices : s.pwm_irq_pending[x] /\ s.pwm_irq_enabled[x]}

pio_sm_set_enabled(s, en) ==
    [Call(s, IF en THEN "pio_sm_enable" ELSE "pio_sm_disable", 0, 0)
        EXCEPT !.sm_enabled = en]

\* the FIFOs are empty between operations: the words of a command are pulled
\* as soon as they are put, so only the call is recorded
pio_sm_clear_fifos(s) == Call(s, "pio_sm_clear_fifos", 0, 0)

\* clears PC, X, Y, ISR, OSR: the command in execution is forgotten
pio_sm_restart(s) == [Call(s, "pio_sm_restart", 0, 0) EXCEPT !.sm_steps = 0]

pio_sm_set_pins(s, v) == Call(s, "pio_sm_set_pins", v, 0)

\* pio_sm_exec(pio, sm, pio_encode_set(pio_pins, v))
pio_sm_exec_set_pins(s, v) == Call(s, "pio_sm_exec_set_pins", v, 0)

(***************************************************************************)
(* pio/pio_exec.cpp                                                        *)
(***************************************************************************)
\* llround((f_sys / hz - 6.0) * 0.5) for hz > 0, at least 1
hz_to_duty_period(hz) ==
    IF hz <= 0 THEN 0
    ELSE IF F_SYS < 8 * hz THEN 1
    ELSE (F_SYS - 5 * hz) \div (2 * hz)

\* the conversion cutting the fraction of a step off instead of rounding
duration_to_steps_floor(duration_us, hz) ==
    IF duration_us <= 0 \/ hz <= 0 THEN 0
    ELSE (duration_us * hz) \div US_PER_S

\* (uint32_t) llround(duration_s * hz), duration_s = duration_us / 1e6; the
\* products of the inputs explored here stay far below 2^31
duration_to_steps(duration_us, hz) ==
    IF duration_us <= 0 \/ hz <= 0 THEN 0
    ELSE (2 * duration_us * hz + US_PER_S) \div (2 * US_PER_S)

\* pio_freq_hz() in cycles per microsecond; periods are in nanoseconds, so
\* that period_s * f_sys is period_ns * pio_freq_per_us / 1000 cycles
pio_freq_per_us == F_SYS \div US_PER_S

\* llround((period_s * f_sys - 7.0) * 0.5) for period_s > 0, at least 1
period_to_duty_period(period_ns) ==
    IF period_ns <= 0 THEN 0
    ELSE IF period_ns * pio_freq_per_us - 7000 < 2000 THEN 1
    ELSE (period_ns * pio_freq_per_us - 6000) \div 2000

\* hz = (rpm / 60.0) * pulses_per_rev, for rpm a multiple of 60
rpm_to_duty_period(rpm, pulses_per_rev) ==
    IF rpm <= 0 \/ pulses_per_rev = 0 THEN 0
    ELSE hz_to_duty_period((rpm \div 60) * pulses_per_rev)

(***************************************************************************)
(* The same three conversions in the earlier revision of the PIO helpers   *)
(* (timing model Tstep = (2*duty + 3) / f_sys).                            *)
(***************************************************************************)
\* llround((f_sys / hz - 3.0) * 0.5) for hz > 0, 1 where that is <= 0
hz_to_duty_period_rev0(hz) ==
    IF hz <= 0 THEN 0
    ELSE IF F_SYS <= 3 * hz THEN 1
    ELSE (F_SYS - 2 * hz) \div (2 * hz)

\* llround((period_s * f_sys - 3.0) * 0.5) for period_s > 0, 1 where that
\* is <= 0
period_to_duty_period_rev0(period_ns) ==
    IF period_ns <= 0 THEN 0
    ELSE IF period_ns * pio_freq_per_us - 3000 <= 0 THEN 1
    ELSE (period_ns * pio_freq_per_us - 2000) \div 2000

rpm_to_duty_period_rev0(rpm, pulses_per_rev) ==
    IF rpm <= 0 \/ pulses_per_rev = 0 THEN 0
    ELSE hz_to_duty_period_rev0((rpm \div 60) * pulses_per_rev)

motor_exec_init(s) ==
    LET s1 == gpio_set_function(s, "PIO")        \* pio_gpio_init
        s2 == Call(s1, "pio_sm_set_consecutive_pindirs", STEP_PIN, 1)
        s3 == [Call(s2, "pio_sm_init", 0, 0)     \* disables and resets the SM
                  EXCEPT !.sm_enabled = FALSE, !.sm_steps = 0]
    IN  pio_sm_set_enabled(s3, TRUE)

motor_exec_run(s, duty_period, steps) ==
    [Call(Call(s, "pio_sm_put_blocking", duty_period, 0),
          "pio_sm_put_blocking", steps, 0)
        EXCEPT !.sm_steps = steps]

\* the steps of the (duty, steps) pairs up to the end marker or the array end
RECURSIVE StreamSteps(_, _)
StreamSteps(words, i) ==
    IF i + 1 > Len(words) THEN 0
    ELSE IF words[i] = 0 /\ words[i + 1] = 0 THEN 0
    ELSE words[i + 1] + StreamSteps(words, i + 2)

motor_exec_stream_start(s, null, words) ==
    IF null \/ Len(words) = 0 THEN Call(s, "stream_start_returns", -1, 0)
    ELSE
    LET s1 == pio_sm_set_enabled(s, FALSE)
        s2 == pio_sm_clear_fifos(s1)
        s3 == pio_sm_restart(s2)
        s4 == pio_sm_set_pins(s3, 0)
        s5 == pio_sm_exec_set_pins(s4, 0)
        s6 == pio_sm_set_enabled(s5, TRUE)
    IN  IF s6.dma_free = 0        \* dma_claim_unused_channel(false) < 0
        THEN Call(s6, "stream_start_returns", -1, 0)
        ELSE [Call(Call(s6, "dma_channel_configure", Len(words), 0),
                   "stream_start_returns", 0, 0)
                EXCEPT !.dma_free = @ - 1,
                       !.sm_steps = StreamSteps(words, 1)]

(***************************************************************************)
(* drivers/pwm_motor.cpp                                                   *)
(***************************************************************************)
\* the loop body switching the slice off one wrap late: it tests for zero
\* before it decrements
pwm_wrap_irq_slice_late(s, slice) ==
    LET s1 == pwm_clear_irq(s, slice)
    IN  IF s1.remaining_steps[slice] > 0
        THEN [s1 EXCEPT !.remaining_steps[slice] = @ - 1]
        ELSE LET s3 == pwm_set_enabled(s1, slice, FALSE)
                 s4 == pwm_set_irq_enabled(s3, slice, FALSE)
             IN  [s4 EXCEPT !.active_slice_mask = @ \ {slice}]

\* the body of the handler's loop for one slice
pwm_wrap_irq_slice(s, slice) ==
    LET s1 == pwm_clear_irq(s, slice)
    IN  IF s1.remaining_steps[slice] > 0
        THEN LET s2 == [s1 EXCEPT !.remaining_steps[slice] = @ - 1]
             IN  IF s2.remaining_steps[slice] = 0
                 THEN LET s3 == pwm_set_enabled(s2, slice, FALSE)
                          s4 == pwm_set_irq_enabled(s3, slice, FALSE)
                      IN  [s4 EXCEPT !.active_slice_mask = @ \ {slice}]
                 ELSE s2
        ELSE s1

\* the handler without the active_slice_mask filter
pwm_wrap_irq_mask_unfiltered(s, status) == status

\* the slices the handler serves: those of the status that pwm_motor manages
pwm_wrap_irq_mask(s, status) == status \cap s.active_slice_mask

RECURSIVE pwm_wrap_irq_loop(_, _)
pwm_wrap_irq_loop(s, mask) ==
    IF mask = {} THEN s
    ELSE LET slice == CHOOSE x \in mask : \A y \in mask : x <= y   \* ctz
         IN  pwm_wrap_irq_loop(pwm_wrap_irq_slice(s, slice), mask \ {slice})

pwm_wrap_irq_handler(s, status) ==
    pwm_wrap_irq_loop(s, pwm_wrap_irq_mask(s, status))

pwm_motor_init(s) ==
    LET slice == pwm_slice(STEP_PIN)
        s1 == gpio_set_function(s, "PWM")
        s2 == [Call(s1, "pwm_init", slice, 0) EXCEPT !.pwm_enabled[slice] = FALSE]
        s3 == Call(s2, "pwm_set_gpio_level", 0, 0)
        s4 == [s3 EXCEPT !.remaining_steps[slice] = 0]
    IN  IF ~s4.irq_installed
        THEN [Call(s4, "irq_set_exclusive_handler", 0, 0)
                 EXCEPT !.irq_installed = TRUE]
        ELSE s4

\* choose_clk_div: the dividers it can return, in sixteenths (8.4 fixed
\* point).  A divider i/16 is a candidate when its wrap estimate
\* sys_hz / (div * freq_hz) - 1 lies in [2, 65535]; which candidate has the
\* least score is left open.  With no candidate the fallback
\* sys_hz / (freq_hz * 65536), clamped into [1, 256], is returned.
choose_clk_div(sys_hz, freq_hz) ==
    IF freq_hz = 0 THEN {16}
    ELSE
    LET legal == { i \in 16 .. (256 * 16) :
                     /\ i <= ((sys_hz * 16) \div 3) \div freq_hz
                     /\ i * freq_hz >= (sys_hz + 4095) \div 4096 }
    IN  IF legal # {} THEN legal
        ELSE IF (sys_hz \div 65536) \div freq_hz < 1 THEN {16}
        ELSE IF (sys_hz \div 65536) \div freq_hz >= 256 THEN {256 * 16}
        ELSE {(sys_hz \div 4096) \div freq_hz}

\* (uint32_t)((float) sys_hz / (clk_div * freq_hz)) - 1 in uint32_t, then
\* if (wrap < 2) wrap = 2; if (wrap > 65535) wrap = 65535;  clk_div in
\* sixteenths.  A quotient 0 makes 0 - 1 wrap to 2^32 - 1.
pwm_wrap(sys_hz, clk_div, freq_hz) ==
    LET q == ((sys_hz * 16) \div clk_div) \div freq_hz
    IN  IF q = 0 THEN 65535
        ELSE IF q - 1 < 2 THEN 2
        ELSE IF q - 1 > 65535 THEN 65535
        ELSE q - 1

\* pwm_set_chan_level(slice, chan, wrap / 2)
pwm_level(wrap) == wrap \div 2

\* the call log starts with the entry "pwm_motor_run" and its arguments
pwm_motor_run(s, freq_hz, steps) ==
    IF freq_hz = 0 \/ steps = 0 THEN Call(s, "pwm_motor_run", freq_hz, steps)
    ELSE
    LET slice == pwm_slice(STEP_PIN)
        s0 == Call(s, "pwm_motor_run", freq_hz, steps)
        s1 == pwm_set_enabled(s0, slice, FALSE)
        s2 == Call(s1, "pwm_configure", freq_hz, 0)  \* clkdiv, wrap, level, counter
        s3 == [s2 EXCEPT !.remaining_steps[slice] = steps,
                         !.active_slice_mask = @ \cup {slice}]
        s4 == pwm_clear_irq(s3, slice)
        s5 == pwm_set_irq_enabled(s4, slice, TRUE)
    IN  pwm_set_enabled(s5, slice, TRUE)

\* pwm_motor_stop clearing the whole mask and every slice's steps
pwm_motor_stop_all(s) ==
    LET slice == pwm_slice(STEP_PIN)
        s1 == pwm_set_enabled(s, slice, FALSE)
        s2 == pwm_set_irq_enabled(s1, slice, FALSE)
    IN  [s2 EXCEPT !.remaining_steps = [x \in Slices |-> 0],
                   !.active_slice_mask = {}]

pwm_motor_stop(s) ==
    LET slice == pwm_slice(STEP_PIN)
        s1 == pwm_set_enabled(s, slice, FALSE)
        s2 == pwm_set_irq_enabled(s1, slice, FALSE)
    IN  [s2 EXCEPT !.remaining_steps[slice] = 0,
                   !.active_slice_mask = @ \ {slice}]

\* ---- the same two functions instruction by instruction around their
\* statement on active_slice_mask, a load, an OR/AND and a store on a
\* volatile word, for a pin of the given slice ----

\* pwm_motor_run up to the load of "active_slice_mask |= (1u << slice)"
pwm_motor_run_load(s, slice, freq_hz, steps) ==
    IF freq_hz = 0 \/ steps = 0 THEN s
    ELSE
    LET s1 == pwm_set_enabled(s, slice, FALSE)
        s2 == Call(s1, "pwm_configure", freq_hz, 0)
    IN  [s2 EXCEPT !.remaining_steps[slice] = steps,
                   !.rmw = [at |-> "|=", slice |-> slice,
                            reg |-> s.active_slice_mask]]

\* pwm_motor_run from the store of "active_slice_mask |= (1u << slice)" on
pwm_motor_run_store(s) ==
    LET slice == s.rmw.slice
        s3 == [s EXCEPT !.active_slice_mask = s.rmw.reg \cup {slice},
                        !.rmw = NoRmw]
        s4 == pwm_clear_irq(s3, slice)
        s5 == pwm_set_irq_enabled(s4, slice, TRUE)
    IN  pwm_set_enabled(s5, slice, TRUE)

\* pwm_motor_stop up to the load of "active_slice_mask &= ~(1u << slice)"
pwm_motor_stop_load(s, slice) ==
    LET s1 == pwm_set_enabled(s, slice, FALSE)
        s2 == pwm_set_irq_enabled(s1, slice, FALSE)
    IN  [s2 EXCEPT !.remaining_steps[slice] = 0,
                   !.rmw = [at |-> "&=", slice |-> slice,
                            reg |-> s.active_slice_mask]]

\* the store of "active_slice_mask &= ~(1u << slice)"
pwm_motor_stop_store(s) ==
    [s EXCEPT !.active_slice_mask = s.rmw.reg \ {s.rmw.slice},
              !.rmw = NoRmw]

(***************************************************************************)
(* The S-curve emitter (CE trajectory discretization).                     *)
(*                                                                         *)
(* The weight of segment i of M is w[i] = 6 u (1 - u) at u = (i + 0.5)/M,  *)
(* that is 3 a / (2 M^2) with a = (2i + 1)(2M - 2i - 1); the weights are   *)
(* kept as the integers a (segments numbered from 0 as in the code).       *)
(***************************************************************************)
PROFILE_SEGMENTS == 32

\* The definition of speed_hz_to_delay is not among the sources; it is the
\* conversion of the time model: never 0 for a speed >= 1.
speed_hz_to_delay(speed_hz) == hz_to_duty_period(speed_hz)

ce_weight(M, i) == (2 * i + 1) * (2 * M - 2 * i - 1)

RECURSIVE ce_sum(_, _)
ce_sum(f, n) == IF n = 0 THEN 0 ELSE f[n - 1] + ce_sum(f, n - 1)

\* the while loop handing the steps still missing from Sr to the segments
\* with the largest remainders, the first of equals first
RECURSIVE ce_remainders(_, _, _, _)
ce_remainders(steps_acc, rem, M, Sr) ==
    IF ce_sum(steps_acc, M) >= Sr THEN steps_acc
    ELSE LET best == CHOOSE i \in 0 .. (M - 1) :
                         /\ \A j \in 0 .. (M - 1) : rem[j] <= rem[i]
                         /\ \A j \in 0 .. (i - 1) : rem[j] < rem[i]
         IN  ce_remainders([steps_acc EXCEPT ![best] = @ + 1],
                           [rem EXCEPT ![best] = 0], M, Sr)

\* lroundf(v_max * alpha * w[i]) without the clamp to 1
ce_speed_unclamped(v_max, Sr, Sr_nominal, M, i) ==
    LET num == v_max * Sr * 3 * ce_weight(M, i)
        den == Sr_nominal * 2 * M * M
    IN  (2 * num + den) \div (2 * den)

\* lroundf(v_max * alpha * w[i]), at least 1; alpha = Sr / Sr_nominal
ce_speed(v_max, Sr, Sr_nominal, M, i) ==
    LET num == v_max * Sr * 3 * ce_weight(M, i)
        den == Sr_nominal * 2 * M * M
        speed == (2 * num + den) \div (2 * den)
    IN  IF speed < 1 THEN 1 ELSE speed

\* the commands up to and with the end marker, as pairs << delay, steps >>,
\* and the number of commands the buffer has room for; NULL is no commands
\* in no buffer
ce_config_to_pio(v_max, total_steps, ramp_steps_per_side) ==
    IF v_max = 0 \/ total_steps = 0 THEN [cmds |-> << >>, alloc |-> 0]
    ELSE
    LET Sr_nominal == ramp_steps_per_side
        short      == Sr_nominal = 0 \/ total_steps <= 2 * Sr_nominal
        Sr         == IF short THEN total_steps \div 2 ELSE Sr_nominal
        has_cruise == ~short
        S_cruise   == IF has_cruise THEN total_steps - 2 * Sr ELSE 0
        M          == IF Sr < PROFILE_SEGMENTS THEN Sr ELSE PROFILE_SEGMENTS
        max_cmds   == 2 * M + (IF has_cruise THEN 1 ELSE 0) + 1
    IN  IF M = 0 THEN [cmds |-> << >>, alloc |-> 0]   \* weight_sum <= 0
        ELSE
        LET w_sum == ce_sum([i \in 0 .. (M - 1) |-> ce_weight(M, i)], M)
            floors == [i \in 0 .. (M - 1) |-> (Sr * ce_weight(M, i)) \div w_sum]
            rem == [i \in 0 .. (M - 1) |->
                      (((Sr * ce_weight(M, i)) % w_sum) * 1000000) \div w_sum]
            steps_acc == ce_remainders(floors, rem, M, Sr)
            a_n == IF ~has_cruise /\ Sr_nominal > 0 THEN Sr ELSE 1
            a_d == IF ~has_cruise /\ Sr_nominal > 0 THEN Sr_nominal ELSE 1
            cmd(i) == << speed_hz_to_delay(ce_speed(v_max, a_n, a_d, M, i)),
                         steps_acc[i] >>
            up   == [k \in 1 .. M |-> cmd(k - 1)]
            down == [k \in 1 .. M |-> cmd(M - k)]
            used(c) == c[2] # 0
            cruise == IF has_cruise /\ S_cruise > 0
                      THEN << << speed_hz_to_delay(v_max), S_cruise >> >>
                      ELSE << >>
        IN  [cmds |-> SelectSeq(up, used) \o cruise \o SelectSeq(down, used)
                          \o << << 0, 0 >> >>,
             alloc |-> max_cmds + 1]

(***************************************************************************)
(* drivers/ps100.cpp: file-local helpers                                   *)
(***************************************************************************)
select_step_as_gpio_low(s) ==
    LET s1 == gpio_set_function(s, "SIO")
        s2 == Call(s1, "gpio_set_dir_out", STEP_PIN, 0)
    IN  [Call(s2, "gpio_put", STEP_PIN, 0) EXCEPT !.sio_low = TRUE]

select_step_for_pwm(s) == gpio_set_function(s, "PWM")

select_step_for_pio(s) == gpio_set_function(s, "PIO")

hard_stop_pio(s) ==
    LET s1 == pio_sm_set_enabled(s, FALSE)
        s2 == pio_sm_clear_fifos(s1)
        s3 == pio_sm_restart(s2)
    IN  pio_sm_exec_set_pins(s3, 0)

\* terminate_hardware without its final "b = ActiveBackend::None"
terminate_hardware_keeps_tracker(s) ==
    LET b  == s.g_backend
        s0 == Call(s, "terminate_hardware_" \o b, 0, 0)
    IN  CASE b = "PWM" -> pwm_motor_stop(s0)
          [] b \in {"PIO_PARAM", "PIO_STREAM"} -> hard_stop_pio(s0)
          [] OTHER -> select_step_as_gpio_low(s0)

\* the call log starts the entry "terminate_hardware" with the tracker value
\* the switch dispatches on
terminate_hardware(s) ==
    LET b  == s.g_backend
        s0 == Call(s, "terminate_hardware_" \o b, 0, 0)
        s1 == CASE b = "PWM" -> pwm_motor_stop(s0)
                [] b \in {"PIO_PARAM", "PIO_STREAM"} -> hard_stop_pio(s0)
                [] OTHER -> select_step_as_gpio_low(s0)
    IN  [s1 EXCEPT !.g_backend = "None"]

(***************************************************************************)
(* drivers/ps100.cpp: PS100_P                                              *)
(***************************************************************************)
\* time_reached with a strict comparison
time_reached_strict(s, t) == s.now > t

\* time_reached(t)
time_reached(s, t) == s.now >= t

update(s) ==
    IF s.com2_state # "Running" THEN s
    ELSE IF ~time_reached(s, s.com2_t_end) THEN s
    ELSE [s EXCEPT !.com1_reason = "Completed", !.com2_state = "Empty"]

init(s) ==
    LET s1 == select_step_as_gpio_low(s)
        s2 == Call(s1, "gpio_init_dir", 0, 0)      \* DIR output, forward
        s3 == pwm_motor_init(s2)
        s4 == motor_exec_init(s3)
        s5 == pio_sm_set_enabled(s4, FALSE)
        s6 == select_step_as_gpio_low(s5)
    IN  [s6 EXCEPT !.com1_reason = "Completed",
                   !.com2_state = "Empty",
                   !.com2_t_end = s.now,
                   !.g_backend = "None",
                   !.inited = TRUE]

\* the interruption without "com1_reason_ = CompletionReason::Interrupted"
interrupt_running_silent(s) ==
    IF s.com2_state = "Running"
    THEN [terminate_hardware(s) EXCEPT !.com2_state = "Empty"]
    ELSE s

\* "If COM2 still running, interrupt it": the block shared by run_steps and
\* run_pio_stream
interrupt_running(s) ==
    IF s.com2_state = "Running"
    THEN [terminate_hardware(s) EXCEPT !.com1_reason = "Interrupted",
                                       !.com2_state = "Empty"]
    ELSE s

\* the no-op branch of run_steps and run_pio_stream
noop_completion(s) ==
    LET s1 == [s EXCEPT !.com1_reason = "Completed",
                        !.com2_state = "Empty",
                        !.g_backend = "None"]
    IN  select_step_as_gpio_low(s1)

\* start_backend without the "pio_sm_set_enabled(cfg_.pio, cfg_.sm, false)"
\* that precedes the PWM run
start_backend_keeps_sm(s, steps, freq_hz, backend) ==
    IF backend = "PWM"
    THEN LET s2 == select_step_for_pwm(s)
             s3 == pwm_motor_run(s2, freq_hz, steps)
         IN  [s3 EXCEPT !.g_backend = "PWM"]
    ELSE LET s1 == pwm_motor_stop(s)
             s2 == select_step_for_pio(s1)
             s3 == pio_sm_set_enabled(s2, FALSE)
             s4 == pio_sm_clear_fifos(s3)
             s5 == pio_sm_restart(s4)
             s6 == pio_sm_set_enabled(s5, TRUE)
             s7 == motor_exec_run(s6, hz_to_duty_period(freq_hz), steps)
         IN  [s7 EXCEPT !.g_backend = "PIO_PARAM"]

\* "start backend (non-blocking) + pin mux ownership"
start_backend(s, steps, freq_hz, backend) ==
    IF backend = "PWM"
    THEN LET s1 == pio_sm_set_enabled(s, FALSE)
             s2 == select_step_for_pwm(s1)
             s3 == pwm_motor_run(s2, freq_hz, steps)
         IN  [s3 EXCEPT !.g_backend = "PWM"]
    ELSE LET s1 == pwm_motor_stop(s)
             s2 == select_step_for_pio(s1)
             s3 == pio_sm_set_enabled(s2, FALSE)
             s4 == pio_sm_clear_fifos(s3)
             s5 == pio_sm_restart(s4)
             s6 == pio_sm_set_enabled(s5, TRUE)
             s7 == motor_exec_run(s6, hz_to_duty_period(freq_hz), steps)
         IN  [s7 EXCEPT !.g_backend = "PIO_PARAM"]

\* "COM2 becomes Running with deterministic t_end"
install_running(s, duration_us) ==
    [s EXCEPT !.com2_t_end = s.now + duration_us, !.com2_state = "Running"]

run_steps(s, steps, freq_hz, backend) ==
    LET s1 == update(s)
        s2 == interrupt_running(s1)
    IN  IF steps = 0 \/ freq_hz = 0
        THEN noop_completion(s2)
        ELSE install_running(start_backend(s2, steps, freq_hz, backend),
                             (steps * US_PER_S) \div freq_hz)

\* the no-op branch of run_velocity
run_velocity_noop(s) ==
    LET s1 == update(s)
        s2 == [s1 EXCEPT !.com1_reason = "Completed", !.g_backend = "None"]
    IN  select_step_as_gpio_low(s2)

run_velocity(s, freq_hz, duration_ms, backend) ==
    IF freq_hz = 0 \/ duration_ms = 0
    THEN run_velocity_noop(s)
    ELSE run_steps(s, duration_to_steps(duration_ms * 1000, freq_hz),
                   freq_hz, backend)

run_pio_stream(s, null, words, estimated_duration_us) ==
    LET s1 == update(s)
    IN  IF null \/ Len(words) = 0 \/ estimated_duration_us = 0
        THEN noop_completion(s1)
        ELSE
        LET s2 == interrupt_running(s1)
            s3 == pwm_motor_stop(s2)
            s4 == select_step_for_pio(s3)
            s5 == pio_sm_set_enabled(s4, FALSE)
            s6 == pio_sm_clear_fifos(s5)
            s7 == pio_sm_restart(s6)
            s8 == pio_sm_set_enabled(s7, TRUE)
            s9 == motor_exec_stream_start(s8, null, words)
            s10 == [s9 EXCEPT !.g_backend = "PIO_STREAM"]
        IN  install_running(s10, estimated_duration_us)

stop(s) ==
    LET s1 == update(s)
    IN  IF s1.com2_state # "Running"
        THEN select_step_as_gpio_low(
                 [terminate_hardware(s1) EXCEPT !.com2_state = "Empty"])
        ELSE select_step_as_gpio_low(
                 [terminate_hardware(s1) EXCEPT !.com1_reason = "Stopped",
                                                !.com2_state = "Empty"])

busy(s) == update(s).com2_state = "Running"

last_completion(s) == update(s).com1_reason

(***************************************************************************)
(* arduino/SerialMotor/serialMotor_pmw.ino                                 *)
(*                                                                         *)
(* 32-bit words (uint32_t, unsigned long, int32_t, long) are pairs         *)
(* <<hi, lo>> of 16-bit halves, so that every value of the width has a     *)
(* representation and the arithmetic wraps as the AVR's does.              *)
(***************************************************************************)
W16 == 65536
H15 == 32768

\* the word of a number 0 <= v < 2^31, and the number of a word below 2^31
u32(v) == << v \div W16, v % W16 >>
u32_val(w) == w[1] * W16 + w[2]

u32_add(a, b) ==
    LET lo == a[2] + b[2]
    IN  << (a[1] + b[1] + (lo \div W16)) % W16, lo % W16 >>

u32_sub(a, b) ==
    LET lo == a[2] - b[2] + W16
    IN  << (a[1] - b[1] + W16 - 1 + (lo \div W16)) % W16, lo % W16 >>

\* a * k modulo 2^32, for 0 <= k < 2^15
u32_mul(a, k) ==
    LET lo == a[2] * k
    IN  << (a[1] * k + (lo \div W16)) % W16, lo % W16 >>

u32_lt(a, b) == a[1] < b[1] \/ (a[1] = b[1] /\ a[2] < b[2])

\* the word read as a signed number: its sign, its negation, a >= b
i32_is_neg(w) == w[1] >= H15
i32_neg(w) == u32_sub(<<0, 0>>, w)
i32_ge(a, b) ==
    IF i32_is_neg(a) # i32_is_neg(b) THEN i32_is_neg(b) ELSE ~u32_lt(a, b)

\* a magnitude of at most 2^31 rounded to the 24 significant bits of a
\* float, ties to even
f32_round(m) ==
    IF m[1] < 256 \/ m[1] >= H15 THEN m
    ELSE LET k    == CHOOSE j \in 1 .. 7 : 128 * 2^j <= m[1] /\ m[1] < 256 * 2^j
             unit == 2^k
             r    == m[2] % unit
             odd  == (m[2] \div unit) % 2 = 1
             base == << m[1], m[2] - r >>
         IN  IF 2 * r > unit \/ (2 * r = unit /\ odd)
             THEN u32_add(base, << 0, unit >>)
             ELSE base

\* (float) x for an int32_t x: the sign and the rounded magnitude
float_of_i32(w) ==
    [neg |-> i32_is_neg(w),
     mag |-> f32_round(IF i32_is_neg(w) THEN i32_neg(w) ELSE w)]

\* speedHz <= 0 for a float
float_le_0(f) == f.neg \/ f.mag = <<0, 0>>

\* n / d in unsigned long arithmetic for a number n < 2^31 and a word d # 0
u32_div_into(n, d) ==
    IF d[1] >= H15 \/ u32_val(d) > n THEN 0 ELSE n \div u32_val(d)

F_CPU == 16000000
NUM_MOTORS == 2
FRAME_HEADER_TIME == 191
FRAME_HEADER_PULSE == 175
FRAME_LENGTH == 11
PULSE_WIDTH_US == 15
STEP_INTERVAL_DEFAULT == 2000
OCR1A_DEFAULT == 999
OCR2A_DEFAULT == 124

Motors == 0 .. (NUM_MOTORS - 1)
Headers == {FRAME_HEADER_TIME, FRAME_HEADER_PULSE}

\* the four bytes of a 32-bit field on the wire (little-endian), for a
\* number 0 <= v < 2^31, and the fields -1, -2 and -2^31
LE(v) == << v % 256, (v \div 256) % 256, (v \div W16) % 256, v \div (256 * W16) >>
LE_MINUS_1 == << 255, 255, 255, 255 >>
LE_MINUS_2 == << 254, 255, 255, 255 >>
LE_INT_MIN == << 0, 0, 0, 128 >>

WireFrame(header, motorMask, directionMask, speed, magnitude) ==
    << header, motorMask, directionMask >> \o speed \o magnitude

\* what the sender puts on the wire, item by item: a stray byte, a frame
\* cut short after two bytes, and complete frames
Items ==
    << << 0 >>,
       << FRAME_HEADER_TIME, 1 >>,
       WireFrame(FRAME_HEADER_TIME,  3, 2, LE(1000000), LE(1)),
       WireFrame(FRAME_HEADER_PULSE, 1, 0, LE(1000000), LE(2)),
       WireFrame(FRAME_HEADER_PULSE, 0, 0, LE(1000), LE(1)),
       WireFrame(FRAME_HEADER_PULSE, 2, 2, LE_MINUS_1, LE_MINUS_2),
       WireFrame(FRAME_HEADER_TIME,  1, 1, LE_INT_MIN, LE_INT_MIN),
       WireFrame(FRAME_HEADER_TIME,  1, 0, LE(1000000), LE(3000000)) >>

IsFrame(item) == Len(item) = FRAME_LENGTH /\ item[1] \in Headers
IsShortFrame(item) == Len(item) < FRAME_LENGTH /\ item[1] \in Headers

\* the items sent byte by byte to the decoder, and the frames sent whole to
\* the running firmware
DecoderItems == {1, 2, 3, 4, 5}
FirmwareFrames == {3, 4, 6, 7, 8}

(***************************************************************************)
(* The firmware's state as one record; its field log is the list of the    *)
(* events of one call (bytes read, frames processed, motors started,       *)
(* lines printed, pulses made) and is not kept between calls.              *)
(***************************************************************************)
FwCur ==
    [ micros |-> micros, serial_rx |-> serial_rx, serial_tx |-> serial_tx,
      receiving |-> receiving, index |-> index, buffer |-> buffer,
      motors |-> motors, timers |-> timers, log |-> << >> ]

Log(s, e) == [s EXCEPT !.log = Append(@, e)]

\* Serial.println(line)
Serial_println(s, line) ==
    [Log(s, << "println", line >>) EXCEPT !.serial_tx = Append(@, line)]

\* ---- Timer1: OC1A = D9, the STEP pin of motor 0 ----
timer1_init(s) ==
    [s EXCEPT !.timers[0] = [ocr |-> OCR1A_DEFAULT, com |-> FALSE, cs |-> 0,
                             port |-> 0, ub |-> s.timers[0].ub]]

\* top = F_CPU / (2UL * hz) - 1 in unsigned long arithmetic, clamped; a
\* division by zero is undefined and is recorded in ub
timer1_set_freq(s, hz) ==
    LET hz1 == IF hz = <<0, 0>> THEN <<0, 1>> ELSE hz
        d   == u32_mul(hz1, 2)
        q   == IF d = <<0, 0>> THEN 0 ELSE u32_div_into(F_CPU, d)
        top == IF q = 0 THEN 65535          \* 0 - 1 wraps to 2^32 - 1
               ELSE IF q - 1 > 65535 THEN 65535
               ELSE IF q - 1 < 1 THEN 1
               ELSE q - 1
    IN  [s EXCEPT !.timers[0].ocr = top,
                  !.timers[0].com = TRUE,
                  !.timers[0].cs = 1,
                  !.timers[0].ub = @ \/ d = <<0, 0>>]

timer1_stop(s) ==
    [s EXCEPT !.timers[0].cs = 0, !.timers[0].com = FALSE,
              !.timers[0].port = 0]

\* ---- Timer2: OC2A = D11, the STEP pin of motor 1 ----
timer2_init(s) ==
    [s EXCEPT !.timers[1].ocr = OCR2A_DEFAULT, !.timers[1].com = FALSE,
              !.timers[1].cs = 0]

PRESC == << 1, 8, 32, 64, 128, 256, 1024 >>

\* the loop of timer2_set_freq from prescaler number i on; b holds bestErr,
\* bestIdx and the value of OCR2A
RECURSIVE timer2_search(_, _, _)
timer2_search(hz, i, b) ==
    IF i > Len(PRESC) THEN b
    ELSE
    LET d == u32_mul(hz, 2 * PRESC[i])
        q == IF d = <<0, 0>> THEN 0 ELSE u32_div_into(F_CPU, d)
    IN  IF d = <<0, 0>> THEN timer2_search(hz, i + 1, [b EXCEPT !.ub = TRUE])
        ELSE IF q = 0 \/ q - 1 > 255 THEN timer2_search(hz, i + 1, b)
        ELSE
        LET ocr    == q - 1
            realHz == u32(F_CPU \div (2 * PRESC[i] * (ocr + 1)))
            err    == IF u32_lt(hz, realHz) THEN u32_sub(realHz, hz)
                      ELSE u32_sub(hz, realHz)
        IN  IF u32_lt(err, b.err)
            THEN timer2_search(hz, i + 1,
                               [b EXCEPT !.err = err, !.idx = i, !.ocr = ocr])
            ELSE timer2_search(hz, i + 1, b)

timer2_set_freq(s, hz) ==
    LET hz1 == IF hz = <<0, 0>> THEN <<0, 1>> ELSE hz
        b   == timer2_search(hz1, 1,
                             [err |-> << 65535, 65535 >>, idx |-> 2,
                              ocr |-> s.timers[1].ocr, ub |-> FALSE])
    IN  [s EXCEPT !.timers[1].ocr = b.ocr,
                  !.timers[1].com = TRUE,
                  !.timers[1].cs = PRESC[b.idx],
                  !.timers[1].ub = @ \/ b.ub]

timer2_stop(s) ==
    [s EXCEPT !.timers[1].com = FALSE, !.timers[1].port = 0]

\* ---- class DM542; motor 0 has pulPin 9, motor 1 has pulPin 11 ----
DM542_new ==
    [ running |-> FALSE, pulseMode |-> FALSE,
      targetPulses |-> <<0, 0>>, pulseCounter |-> <<0, 0>>,
      stepIntervalUs |-> u32(STEP_INTERVAL_DEFAULT),
      lastStepTime |-> <<0, 0>>, stopTime |-> <<0, 0>>,
      dirLevel |-> FALSE ]

\* start(direction, speedHz, durationMs): the time mode, on the hardware timer
DM542_start(s, i, direction, speedHz, durationMs) ==
    LET hz == IF float_le_0(speedHz) THEN <<0, 1>> ELSE speedHz.mag
        s0 == Log(s, << "start", i, direction, hz, durationMs >>)
        s1 == [s0 EXCEPT !.motors[i].pulseMode = FALSE,
                         !.motors[i].pulseCounter = <<0, 0>>,
                         !.motors[i].dirLevel = direction]
        s2 == IF i = 0 THEN timer1_set_freq(s1, hz) ELSE timer2_set_freq(s1, hz)
    IN  [s2 EXCEPT !.motors[i].stopTime =
                       u32_add(s.micros, u32_mul(durationMs, 1000)),
                   !.motors[i].running = TRUE]

\* startByPulse(direction, speedHz, pulses): the pulse mode, stepped by update
DM542_startByPulse(s, i, direction, speedHz, n) ==
    LET hz == IF float_le_0(speedHz) THEN <<0, 1>> ELSE speedHz.mag
        s0 == Log(s, << "startByPulse", i, direction, hz, n >>)
    IN  [s0 EXCEPT !.motors[i].pulseMode = TRUE,
                   !.motors[i].pulseCounter = <<0, 0>>,
                   !.motors[i].targetPulses = n,
                   !.motors[i].dirLevel = direction,
                   !.motors[i].stepIntervalUs =
                       u32(u32_div_into(1000000, hz)),
                   !.motors[i].running = TRUE,
                   !.motors[i].lastStepTime = s.micros]

\* the step of update(): the pin written high and low, 15 us each; the
\* write reaches the pin only while the timer's compare output is
\* disconnected from it
DM542_step(s, i) ==
    LET s1 == [s EXCEPT !.motors[i].lastStepTime = s.micros,
                        !.timers[i].port = 0,
                        !.micros = u32_add(@, u32(2 * PULSE_WIDTH_US))]
        s2 == Log(s1, << "pulse", i, ~s.timers[i].com >>)
        s3 == [s2 EXCEPT !.motors[i].pulseCounter = u32_add(@, <<0, 1>>)]
    IN  IF ~u32_lt(s3.motors[i].pulseCounter, s3.motors[i].targetPulses)
        THEN [s3 EXCEPT !.motors[i].running = FALSE]
        ELSE s3

\* update() without the software step of the pulse mode
DM542_update_never_steps(s, i) ==
    LET m == s.motors[i]
    IN  IF ~m.running THEN s
        ELSE IF ~m.pulseMode
        THEN IF i32_ge(u32_sub(s.micros, m.stopTime), <<0, 0>>)
             THEN [(IF i = 0 THEN timer1_stop(s) ELSE timer2_stop(s))
                       EXCEPT !.motors[i].running = FALSE]
             ELSE s
        ELSE s

DM542_update(s, i) ==
    LET m == s.motors[i]
    IN  IF ~m.running THEN s
        ELSE IF ~m.pulseMode
        THEN IF i32_ge(u32_sub(s.micros, m.stopTime), <<0, 0>>)
             THEN [(IF i = 0 THEN timer1_stop(s) ELSE timer2_stop(s))
                       EXCEPT !.motors[i].running = FALSE]
             ELSE s
        ELSE IF i32_ge(u32_sub(s.micros, m.lastStepTime), m.stepIntervalUs)
             THEN DM542_step(s, i)
             ELSE s

\* ---- the serial protocol ----
\* the int32_t at buffer offsets off .. off + 3 (little-endian)
frame_field(buf, off) ==
    << buf[off + 3] + 256 * buf[off + 4], buf[off + 1] + 256 * buf[off + 2] >>

\* "if (x < 0) x = -x", the negation wrapping modulo 2^32
normalize(x) == IF i32_is_neg(x) THEN i32_neg(x) ELSE x

\* the loop leaving at the first motor it has started
RECURSIVE dispatch_first_only(_, _, _)
dispatch_first_only(s, i, frame) ==
    IF i >= NUM_MOTORS THEN s
    ELSE IF (frame.motorMask \div (2^i)) % 2 = 1
    THEN LET direction == (frame.directionMask \div (2^i)) % 2 = 1
         IN  IF frame.header = FRAME_HEADER_TIME
             THEN DM542_start(s, i, direction, float_of_i32(frame.speedHz),
                              frame.durationMs)
             ELSE DM542_startByPulse(s, i, direction,
                                     float_of_i32(frame.speedHz),
                                     frame.durationMs)
    ELSE dispatch_first_only(s, i + 1, frame)

\* the loop of processFrame over the motors, from motor i on
RECURSIVE dispatch(_, _, _)
dispatch(s, i, frame) ==
    IF i >= NUM_MOTORS THEN s
    ELSE IF (frame.motorMask \div (2^i)) % 2 = 1
    THEN LET direction == (frame.directionMask \div (2^i)) % 2 = 1
         IN  dispatch(IF frame.header = FRAME_HEADER_TIME
                      THEN DM542_start(s, i, direction,
                                       float_of_i32(frame.speedHz),
                                       frame.durationMs)
                      ELSE DM542_startByPulse(s, i, direction,
                                              float_of_i32(frame.speedHz),
                                              frame.durationMs),
                      i + 1, frame)
    ELSE dispatch(s, i + 1, frame)

\* processFrame answering OK only when the frame has started a motor
processFrame_quiet(s) ==
    LET s0 == Log(s, << "processFrame", s.buffer, s.index >>)
        frame == [ header |-> s.buffer[1],
                   motorMask |-> s.buffer[2],
                   directionMask |-> s.buffer[3],
                   speedHz |-> normalize(frame_field(s.buffer, 3)),
                   durationMs |-> normalize(frame_field(s.buffer, 7)) ]
    IN  IF frame.header \notin Headers THEN s0
        ELSE IF frame.motorMask % (2^NUM_MOTORS) = 0 THEN dispatch(s0, 0, frame)
        ELSE Serial_println(dispatch(s0, 0, frame), "OK")

processFrame(s) ==
    LET s0 == Log(s, << "processFrame", s.buffer, s.index >>)
        frame == [ header |-> s.buffer[1],
                   motorMask |-> s.buffer[2],
                   directionMask |-> s.buffer[3],
                   speedHz |-> normalize(frame_field(s.buffer, 3)),
                   durationMs |-> normalize(frame_field(s.buffer, 7)) ]
    IN  IF frame.header \notin Headers THEN s0
        ELSE Serial_println(dispatch(s0, 0, frame), "OK")

\* buffer[index++] = byte; index is a uint8_t, and a store past the end of
\* the buffer is recorded by its index only
buffer_put(s, byte) ==
    LET s0 == Log(s, << "write", s.index >>)
    IN  IF s0.index < FRAME_LENGTH
        THEN [s0 EXCEPT !.buffer[s0.index + 1] = byte,
                        !.index = (@ + 1) % 256]
        ELSE [s0 EXCEPT !.index = (@ + 1) % 256]

\* the header branch without "index = 0"
begin_frame_keeps_index(s, byte) ==
    buffer_put([s EXCEPT !.receiving = TRUE], byte)

\* receiving = true; index = 0; buffer[index++] = byte;
begin_frame(s, byte) ==
    buffer_put([s EXCEPT !.receiving = TRUE, !.index = 0], byte)

\* the loop body storing a byte before it looks at the decoder's state
read_byte_stores_first(s, byte) ==
    LET s0 == Log(s, << "read", byte, s.receiving >>)
    IN  IF ~s0.receiving
        THEN IF byte \in Headers
             THEN [s0 EXCEPT !.receiving = TRUE, !.index = 1,
                             !.buffer[1] = byte]
             ELSE [s0 EXCEPT !.index = 1, !.buffer[1] = byte]
        ELSE LET s1 == [s0 EXCEPT !.buffer[s0.index + 1] = byte,
                                  !.index = @ + 1]
             IN  IF s1.index >= FRAME_LENGTH
                 THEN processFrame([s1 EXCEPT !.receiving = FALSE])
                 ELSE s1

\* the body of readSerial's loop for one byte
read_byte(s, byte) ==
    LET s0 == Log(s, << "read", byte, s.receiving >>)
    IN  IF ~s0.receiving
        THEN IF byte \in Headers
             THEN begin_frame(s0, byte)
             ELSE s0
        ELSE LET s1 == buffer_put(s0, byte)
             IN  IF s1.index >= FRAME_LENGTH
                 THEN processFrame([s1 EXCEPT !.receiving = FALSE])
                 ELSE s1

\* readSerial forgetting a frame it has not finished when it returns
RECURSIVE readSerial_forgets(_)
readSerial_forgets(s) ==
    IF s.serial_rx = << >> THEN [s EXCEPT !.receiving = FALSE]
    ELSE readSerial_forgets(read_byte([s EXCEPT !.serial_rx = Tail(@)],
                                      Head(s.serial_rx)))

\* while (Serial.available()) { byte = Serial.read(); ... }
RECURSIVE readSerial(_)
readSerial(s) ==
    IF s.serial_rx = << >> THEN s
    ELSE readSerial(read_byte([s EXCEPT !.serial_rx = Tail(@)],
                              Head(s.serial_rx)))

setup(s) ==
    Serial_println(timer2_init(timer1_init(s)), "READY")

(***************************************************************************)
(* The firmware: its main program, the sender on the serial line, the      *)
(* hardware timers and the clock.                                          *)
(***************************************************************************)
MaxItems == 2
MaxPending == 11
MaxMicros == 1
MaxPulses == 3

FwBecomes(s) ==
    /\ micros' = s.micros
    /\ serial_rx' = s.serial_rx
    /\ serial_tx' = s.serial_tx
    /\ receiving' = s.receiving
    /\ index' = s.index
    /\ buffer' = s.buffer
    /\ motors' = s.motors
    /\ timers' = s.timers
    /\ UNCHANGED << psvars, trajvars >>

\* what the events of one call add to the record of the decoder's doings:
\* for every byte read whether the decoder was Idle, the frames handed to
\* processFrame (with the number of bytes read so far), the number of
\* readSerial calls that read bytes of the frame begun last, and the
\* commands the last processFrame handed to the motors, and the values of
\* index at the stores into the buffer and at the calls of processFrame.
\* counted: this call has been counted for the frame in progress.
RECURSIVE Observe(_, _, _, _)
Observe(sn, log, i, counted) ==
    IF i > Len(log) THEN sn
    ELSE
    LET e == log[i]
    IN  CASE e[1] = "read" ->
               LET sn1 == [sn EXCEPT !.was_idle = Append(@, ~e[3])]
               IN  IF ~e[3]
                   THEN IF e[2] \in Headers
                        THEN Observe([sn1 EXCEPT !.reads = 1], log, i + 1, TRUE)
                        ELSE Observe(sn1, log, i + 1, counted)
                   ELSE IF counted THEN Observe(sn1, log, i + 1, TRUE)
                   ELSE Observe([sn1 EXCEPT !.reads = @ + 1], log, i + 1, TRUE)
          [] e[1] = "processFrame" ->
               Observe([sn EXCEPT !.decoded =
                                      Append(@, [bytes |-> e[2],
                                                 at |-> Len(sn.was_idle)]),
                                  !.handed = << >>,
                                  !.called = @ \cup {e[3]}],
                       log, i + 1, counted)
          [] e[1] = "write" ->
               Observe([sn EXCEPT !.stored = @ \cup {e[2]}],
                       log, i + 1, counted)
          [] e[1] \in {"start", "startByPulse"} ->
               Observe([sn EXCEPT !.handed =
                                      Append(@, [call |-> e[1], motor |-> e[2],
                                                 direction |-> e[3],
                                                 speed |-> e[4],
                                                 magnitude |-> e[5]])],
                       log, i + 1, counted)
          [] OTHER -> Observe(sn, log, i + 1, counted)

\* the pulse counter of motor i after the events of one call: cleared when
\* a command starts the motor, advanced by a pulse that reaches the pin
Counted(log, i) ==
    IF \E j \in DOMAIN log : log[j][1] \in {"start", "startByPulse"}
                               /\ log[j][2] = i
    THEN 0
    ELSE IF \E j \in DOMAIN log : log[j][1] = "pulse" /\ log[j][2] = i
                                    /\ log[j][3]
    THEN Min(pulses[i] + 1, MaxPulses)
    ELSE pulses[i]

\* a call of the firmware leaves state s
FwCommit(s) ==
    /\ FwBecomes(s)
    /\ seen' = Observe(seen, s.log, 1, FALSE)
    /\ pulses' = [i \in Motors |-> Counted(s.log, i)]

FwInit ==
    /\ pc = "setup"
    /\ micros = <<0, 0>>
    /\ serial_rx = << >>
    /\ serial_tx = << >>
    /\ receiving = FALSE
    /\ index = 0
    /\ buffer = [j \in 1 .. FRAME_LENGTH |-> 0]
    /\ motors = [i \in Motors |-> DM542_new]
    /\ timers = [i \in Motors |-> [ocr |-> 0, com |-> FALSE, cs |-> 0,
                                   port |-> 0, ub |-> FALSE]]
    /\ host = [sent |-> << >>, pos |-> 0]
    /\ seen = [was_idle |-> << >>, decoded |-> << >>, reads |-> 0,
               handed |-> << >>, stored |-> {}, called |-> {}]
    /\ pulses = [i \in Motors |-> 0]

(***************************************************************************)
(* rail_pose_engine: the state of a new engine.                            *)
(***************************************************************************)
Axes == {0, 1}

\* direction bit to axis sign: bit = 0 -> dir_bit0_sign, bit = 1 -> dir_bit1_sign
dir_bit0_sign == 1
dir_bit1_sign == -1

\* packets fed to the engine, parsed: times in ms, speeds in steps per
\* second; the last one does not parse
Packets ==
    << [valid |-> TRUE, header |-> FRAME_HEADER_TIME, motor_mask |-> 1,
        direction_mask |-> 0, speed_hz |-> 1000, magnitude |-> 2],
       [valid |-> TRUE, header |-> FRAME_HEADER_TIME, motor_mask |-> 3,
        direction_mask |-> 2, speed_hz |-> 500, magnitude |-> 1],
       [valid |-> TRUE, header |-> FRAME_HEADER_PULSE, motor_mask |-> 2,
        direction_mask |-> 0, speed_hz |-> 500, magnitude |-> 1],
       [valid |-> TRUE, header |-> FRAME_HEADER_PULSE, motor_mask |-> 1,
        direction_mask |-> 1, speed_hz |-> 1000, magnitude |-> 3],
       [valid |-> FALSE, header |-> 0, motor_mask |-> 0,
        direction_mask |-> 0, speed_hz |-> 0, magnitude |-> 0] >>

\* the latest timestamp fed
MaxStamp == 3
MaxTotal == 9
MaxRamp == 4

\* preset offsets, in steps
PresetSet == {0, 7}

\* the times pose_at is asked about, in ms
QueryTimes == 0 .. (MaxStamp + 3)

EngineCur ==
    [ session_start_abs |-> session_start_abs, segments |-> segments,
      t_fed |-> t_fed, preset_steps |-> preset_steps,
      pose |-> [a \in Axes |-> 0], ret |-> "-" ]

\* start(t_abs): anchors the session
engine_start(e, t_abs) == [e EXCEPT !.session_start_abs = t_abs]

\* set_preset_steps(x0_step, y0_step): the offset of every later query
set_preset_steps(e, x0_step, y0_step) ==
    [e EXCEPT !.preset_steps = [a \in Axes |->
                                   IF a = 0 THEN x0_step ELSE y0_step]]

\* the duration of a command in ms: magnitude/1000 s when TimeBounded,
\* magnitude/speed_hz s when StepBounded
duration_of(cmd) ==
    IF cmd.header = FRAME_HEADER_TIME THEN cmd.magnitude
    ELSE (1000 * cmd.magnitude) \div cmd.speed_hz

\* velocity = +-speed_hz by the axis's direction bit
velocity_of(cmd, a) ==
    IF (cmd.direction_mask \div (2^a)) % 2 = 0
    THEN dir_bit0_sign * cmd.speed_hz
    ELSE dir_bit1_sign * cmd.speed_hz

\* the position of a segment at time t, in 1/1000 step
x_in(seg, t) == seg.x_at_start + seg.velocity * (t - seg.t_start)

\* step 2 of feed: the axis's current segment truncated at t_rel
truncate(segs, t_rel) ==
    IF segs # << >> /\ segs[Len(segs)].t_end > t_rel
    THEN [segs EXCEPT ![Len(segs)].t_end = t_rel]
    ELSE segs

\* the axis's position at t_rel: its last segment followed up to t_rel, or
\* to its end when it ended before
x_at(segs, t_rel) ==
    IF segs = << >> THEN 0
    ELSE x_in(segs[Len(segs)], Min(t_rel, segs[Len(segs)].t_end))

\* the new segment starting where the segment before it would have ended
feed_axis_from_end(segs, t_rel, cmd, a) ==
    Append(truncate(segs, t_rel),
           [ t_start |-> t_rel,
             t_end |-> t_rel + duration_of(cmd),
             velocity |-> velocity_of(cmd, a),
             x_at_start |-> IF segs = << >> THEN 0
                            ELSE x_in(segs[Len(segs)], segs[Len(segs)].t_end) ])

\* step 3 of feed: the new segment appended
feed_axis(segs, t_rel, cmd, a) ==
    LET cut == truncate(segs, t_rel)
    IN  Append(cut, [ t_start |-> t_rel,
                      t_end |-> t_rel + duration_of(cmd),
                      velocity |-> velocity_of(cmd, a),
                      x_at_start |-> x_at(cut, t_rel) ])

\* feed(t_send_abs, raw_packet)
feed(e, t_send_abs, raw_packet) ==
    IF ~raw_packet.valid THEN [e EXCEPT !.ret = "None"]
    ELSE
    LET anchor == IF e.session_start_abs = -1 THEN t_send_abs
                  ELSE e.session_start_abs
        t_rel == t_send_abs - anchor
    IN  [e EXCEPT !.session_start_abs = anchor,
                  !.t_fed = t_send_abs,
                  !.ret = "Command",
                  !.segments =
                      [a \in Axes |->
                          IF (raw_packet.motor_mask \div (2^a)) % 2 = 1
                          THEN feed_axis(e.segments[a], t_rel, raw_packet, a)
                          ELSE e.segments[a]]]

\* the segment of an axis that holds t_rel: the last one started by then
segment_at(segs, t_rel) ==
    LET started == {n \in DOMAIN segs : segs[n].t_start <= t_rel}
    IN  CHOOSE n \in started : \A m \in started : m <= n

\* pose_at following the last segment beyond its end
pose_axis_unbounded(segs, preset, t_rel) ==
    IF segs = << >> \/ t_rel < segs[1].t_start THEN 1000 * preset
    ELSE 1000 * preset + x_in(segs[segment_at(segs, t_rel)], t_rel)

\* pose_at for one axis, in 1/1000 step: the preset before the first
\* segment, the segment's position within one, its terminal position after
pose_axis(segs, preset, t_rel) ==
    IF segs = << >> \/ t_rel < segs[1].t_start THEN 1000 * preset
    ELSE LET seg == segs[segment_at(segs, t_rel)]
         IN  1000 * preset + x_in(seg, Min(t_rel, seg.t_end))

\* pose_at(t_rel) -> (x_step, y_step)
pose_at(e, t_rel) ==
    [e EXCEPT !.pose = [a \in Axes |->
                           pose_axis(e.segments[a], e.preset_steps[a], t_rel)]]

EngineBecomes(e) ==
    /\ session_start_abs' = e.session_start_abs
    /\ segments' = e.segments
    /\ t_fed' = e.t_fed
    /\ preset_steps' = e.preset_steps
    /\ pose' = e.pose
    /\ UNCHANGED << psvars, fwvars >>

TrajInit ==
    /\ session_start_abs = -1
    /\ segments = [a \in Axes |-> << >>]
    /\ t_fed = -1
    /\ preset_steps = [a \in Axes |-> 0]
    /\ pose = [a \in Axes |-> 0]

(***************************************************************************)
(* The state after construction: PS100_P's member initialisers, the        *)
(* zero-initialised statics of the backends and the hardware out of reset. *)
(* Other users of the chip may already hold DMA channels.                  *)
(***************************************************************************)
Init ==
    /\ now = 0
    /\ inited = FALSE
    /\ com1_reason = "Completed"
    /\ com2_state = "Empty"
    /\ com2_t_end = 0
    /\ g_backend = "None"
    /\ pin_func = "NULL"
    /\ sio_low = FALSE
    /\ pwm_enabled = [x \in Slices |-> FALSE]
    /\ pwm_irq_enabled = [x \in Slices |-> FALSE]
    /\ pwm_irq_pending = [x \in Slices |-> FALSE]
    /\ remaining_steps = [x \in Slices |-> 0]
    /\ active_slice_mask = {}
    /\ rmw = NoRmw
    /\ irq_installed = FALSE
    /\ sm_enabled = FALSE
    /\ sm_steps = 0
    /\ dma_free \in 0 .. MaxFreeDma
    /\ probe = [n |-> 0, count |-> 0]
    /\ peer = [ inited |-> FALSE, com1_reason |-> "Completed",
                com2_state |-> "Empty", com2_t_end |-> 0,
                g_backend |-> "None", pin_func |-> "NULL",
                sio_low |-> FALSE, sm_enabled |-> FALSE, sm_steps |-> 0 ]
    /\ last = Op("construct", 0, 0, "-", "-")
    /\ FwInit
    /\ TrajInit

(***************************************************************************)
(* Operations of the arbiter, as the test program calls them.              *)
(***************************************************************************)
PsInit ==
    /\ Commit(init(Cur))
    /\ last' = Op("init", 0, 0, "-", "-")

RunSteps(steps, freq_hz, backend) ==
    /\ inited
    /\ Commit(run_steps(Cur, steps, freq_hz, backend))
    /\ last' = Op("run_steps", steps, freq_hz, backend, "-")

RunVelocity(freq_hz, duration_ms, backend) ==
    /\ inited
    /\ Commit(run_velocity(Cur, freq_hz, duration_ms, backend))
    /\ last' = Op("run_velocity", freq_hz, duration_ms, backend, "-")

RunPioStream(i) ==
    /\ inited
    /\ Commit(run_pio_stream(Cur, StreamInputs[i].null,
                              StreamInputs[i].words, StreamInputs[i].est))
    /\ last' = Op("run_pio_stream", i, 0, "-", "-")

Stop ==
    /\ inited
    /\ Commit(stop(Cur))
    /\ last' = Op("stop", 0, 0, "-", "-")

Busy ==
    /\ inited
    /\ Commit(update(Cur))
    /\ last' = Op("busy", 0, 0, "-", IF busy(Cur) THEN "true" ELSE "false")

LastCompletion ==
    /\ inited
    /\ Commit(update(Cur))
    /\ last' = Op("last_completion", 0, 0, "-", last_completion(Cur))

(***************************************************************************)
(* The hardware and the clock.                                             *)
(***************************************************************************)
\* the counter of an enabled slice wraps: one pulse has been produced, the
\* slice raises its interrupt, and the handler runs if the interrupt is
\* installed and enabled for some slice
PwmWrap(slice) ==
    /\ pwm_enabled[slice]
    /\ LET s1 == [Cur EXCEPT !.pwm_irq_pending[slice] = TRUE]
           status == pwm_get_irq_status_mask(s1)
       IN  Becomes(IF s1.irq_installed /\ status # {}
                   THEN pwm_wrap_irq_handler(s1, status)
                   ELSE s1)
    /\ probe' = IF slice = MotorSlice
                THEN [probe EXCEPT !.count = Min(@ + 1, MaxSteps + 2)]
                ELSE probe
    /\ last' = Op("pwm_wrap", slice, 0, "-", "-")

\* another user of the PWM block switches its own slice on, with its wrap
\* interrupt, or switches it off and acknowledges the interrupt
OtherPwmUser ==
    /\ Becomes([Cur EXCEPT
                  !.pwm_enabled[OtherSlice] = ~@,
                  !.pwm_irq_enabled[OtherSlice] = ~pwm_enabled[OtherSlice],
                  !.pwm_irq_pending[OtherSlice] = FALSE])
    /\ UNCHANGED probe
    /\ last' = Op("other_pwm_user", OtherSlice, 0, "-", "-")

\* the enabled state machine emits one step of its command
PioStep ==
    /\ sm_enabled
    /\ sm_steps > 0
    /\ Becomes([Cur EXCEPT !.sm_steps = @ - 1])
    /\ UNCHANGED probe
    /\ last' = Op("pio_step", 0, 0, "-", "-")

\* time passes: by some microseconds within the horizon, or up to the end
\* of the installed command
Tick ==
    /\ now < MaxTime
    /\ \E t \in ((now + 1) .. MaxTime) \cup {com2_t_end} :
          /\ t > now
          /\ Becomes([Cur EXCEPT !.now = t])
    /\ UNCHANGED probe
    /\ last' = Op("tick", 0, 0, "-", "-")

Next ==
    \/ PsInit
    \/ \E steps \in StepsSet, freq_hz \in HzSet, backend \in Backends :
          RunSteps(steps, freq_hz, backend)
    \/ \E freq_hz \in VelHzSet, duration_ms \in MsSet, backend \in Backends :
          RunVelocity(freq_hz, duration_ms, backend)
    \/ \E i \in DOMAIN StreamInputs : RunPioStream(i)
    \/ Stop
    \/ Busy
    \/ LastCompletion
    \/ \E slice \in Slices : PwmWrap(slice)
    \/ OtherPwmUser
    \/ PioStep
    \/ Tick

Spec == Init /\ [][Next]_vars

(***************************************************************************)
(* Two arbiters on one chip.  The second PS100_P has its own members, its  *)
(* own (PIO, SM) slot of the tracker, its own state machine and its STEP   *)
(* pin on the other PWM slice; the PWM driver's statics, the interrupt     *)
(* handler, the DMA channels and the clock are shared.  Its operations are *)
(* the same code run with its own Config: the state seen from its side.    *)
(***************************************************************************)
OtherOf(slice) == IF slice = MotorSlice THEN OtherSlice ELSE MotorSlice

\* a per-slice array seen from the other arbiter
SwapSlices(f) == [x \in Slices |-> f[OtherOf(x)]]

\* the members, tracker slot, pin and state machine of the arbiter of s
Own(s) ==
    [ inited |-> s.inited, com1_reason |-> s.com1_reason,
      com2_state |-> s.com2_state, com2_t_end |-> s.com2_t_end,
      g_backend |-> s.g_backend, pin_func |-> s.pin_func,
      sio_low |-> s.sio_low, sm_enabled |-> s.sm_enabled,
      sm_steps |-> s.sm_steps ]

\* the state as the other arbiter's Config addresses it
Swap(s) ==
    [s EXCEPT !.inited = s.peer.inited,
              !.com1_reason = s.peer.com1_reason,
              !.com2_state = s.peer.com2_state,
              !.com2_t_end = s.peer.com2_t_end,
              !.g_backend = s.peer.g_backend,
              !.pin_func = s.peer.pin_func,
              !.sio_low = s.peer.sio_low,
              !.sm_enabled = s.peer.sm_enabled,
              !.sm_steps = s.peer.sm_steps,
              !.peer = Own(s),
              !.pwm_enabled = SwapSlices(@),
              !.pwm_irq_enabled = SwapSlices(@),
              !.pwm_irq_pending = SwapSlices(@),
              !.remaining_steps = SwapSlices(@),
              !.active_slice_mask = {OtherOf(x) : x \in @}]

\* the operations of an arbiter, by name and arguments
ArbiterCall(s, l) ==
    CASE l.op = "init" -> init(s)
      [] l.op = "run_steps" -> run_steps(s, l.a, l.b, l.c)
      [] l.op = "run_velocity" -> run_velocity(s, l.a, l.b, l.c)
      [] l.op = "run_pio_stream" ->
            run_pio_stream(s, StreamInputs[l.a].null, StreamInputs[l.a].words,
                           StreamInputs[l.a].est)
      [] l.op = "stop" -> stop(s)
      [] l.op \in {"busy", "last_completion"} -> update(s)

\* the calls made on each of the two arbiters
PairCalls ==
    {Op("init", 0, 0, "-", "-"), Op("stop", 0, 0, "-", "-"),
     Op("busy", 0, 0, "-", "-"), Op("last_completion", 0, 0, "-", "-"),
     Op("run_pio_stream", 4, 0, "-", "-")}
    \cup {Op("run_steps", 1, 1000, backend, "-") : backend \in Backends}
    \cup {Op("run_velocity", 1000, 1, backend, "-") : backend \in Backends}

\* a call on the first arbiter
Arbiter(l) ==
    /\ l.op = "init" \/ inited
    /\ Commit(ArbiterCall(Cur, l))
    /\ last' = l

\* a call on the second arbiter
Peer(l) ==
    /\ l.op = "init" \/ peer.inited
    /\ Becomes(Swap(ArbiterCall(Swap(Cur), l)))
    /\ UNCHANGED probe
    /\ last' = [l EXCEPT !.op = "peer." \o @]

PairNext ==
    \/ \E l \in PairCalls : Arbiter(l)
    \/ \E l \in PairCalls : Peer(l)
    \/ \E slice \in Slices : PwmWrap(slice)
    \/ Tick

PairSpec == Init /\ [][PairNext]_vars

TypeOK ==
    /\ now \in Nat
    /\ com1_reason \in Reasons
    /\ com2_state \in {"Empty", "Running"}
    /\ g_backend \in Trackers
    /\ pin_func \in {"NULL", "SIO", "PWM", "PIO"}
    /\ active_slice_mask \subseteq Slices
    /\ rmw.at \in {"-", "|=", "&="}
    /\ rmw.reg \subseteq Slices
    /\ sm_steps \in Nat
    /\ dma_free \in 0 .. MaxFreeDma

(***************************************************************************)
(* The firmware's main program: setup(), then loop() for ever, which is    *)
(* readSerial() followed by update() of each motor.  Bytes arrive and time *)
(* passes between the calls.                                               *)
(***************************************************************************)
UpdatePc(i) == IF i = 0 THEN "update0" ELSE "update1"

FwSetup ==
    /\ pc = "setup"
    /\ FwCommit(setup(FwCur))
    /\ pc' = "readSerial"
    /\ UNCHANGED host
    /\ last' = Op("setup", 0, 0, "-", "-")

ReadSerial ==
    /\ pc = "readSerial"
    /\ FwCommit(readSerial(FwCur))
    /\ pc' = UpdatePc(0)
    /\ UNCHANGED host
    /\ last' = Op("readSerial", Len(serial_rx), 0, "-", "-")

FwUpdate(i) ==
    /\ pc = UpdatePc(i)
    /\ FwCommit(DM542_update(FwCur, i))
    /\ pc' = IF i + 1 < NUM_MOTORS THEN UpdatePc(i + 1) ELSE "readSerial"
    /\ UNCHANGED host
    /\ last' = Op("update", i, 0, "-", "-")

\* the item the sender is in the middle of, or 0
HostItem ==
    IF host.sent # << >> /\ host.pos < Len(Items[host.sent[Len(host.sent)]])
    THEN host.sent[Len(host.sent)]
    ELSE 0

\* the sender puts one byte on the line: the next byte of the item it is
\* sending, or the first byte of a new item k
HostSend(k) ==
    /\ pc # "setup"
    /\ Len(serial_rx) < MaxPending
    /\ IF HostItem # 0
       THEN /\ k = HostItem
            /\ host' = [host EXCEPT !.pos = @ + 1]
       ELSE /\ Len(host.sent) < MaxItems
            /\ host' = [sent |-> Append(host.sent, k), pos |-> 1]
    /\ serial_rx' = Append(serial_rx, Items[k][host'.pos])
    /\ UNCHANGED << pc, micros, serial_tx, receiving, index, buffer, motors,
                    timers, seen, pulses, psvars, trajvars >>
    /\ last' = Op("host_send", k, host'.pos, "-", "-")

\* the sender puts a whole frame on the line while the line is quiet
HostSendFrame(k) ==
    /\ pc # "setup"
    /\ serial_rx = << >>
    /\ HostItem = 0
    /\ Len(host.sent) < MaxItems
    /\ host' = [sent |-> Append(host.sent, k), pos |-> Len(Items[k])]
    /\ serial_rx' = Items[k]
    /\ UNCHANGED << pc, micros, serial_tx, receiving, index, buffer, motors,
                    timers, seen, pulses, psvars, trajvars >>
    /\ last' = Op("host_send_frame", k, 0, "-", "-")

\* the running timer of motor i, its compare output connected, completes
\* one period on the pin
TimerPulse(i) ==
    /\ timers[i].com
    /\ timers[i].cs # 0
    /\ pulses[i] < MaxPulses
    /\ pulses' = [pulses EXCEPT ![i] = @ + 1]
    /\ UNCHANGED << pc, micros, serial_rx, serial_tx, receiving, index,
                    buffer, motors, timers, host, seen, psvars, trajvars >>
    /\ last' = Op("timer_pulse", i, 0, "-", "-")

\* the instants at which a running motor is due: the stop time of a time
\* command, the next step of a pulse command
DueTimes ==
    { motors[i].stopTime : i \in {j \in Motors : motors[j].running
                                                   /\ ~motors[j].pulseMode} }
    \cup
    { u32_add(motors[i].lastStepTime, motors[i].stepIntervalUs) :
        i \in {j \in Motors : motors[j].running /\ motors[j].pulseMode} }

\* micros() advances: by one microsecond, or up to an instant at which a
\* motor is due
FwTick ==
    /\ pc # "setup"
    /\ u32_val(micros) < MaxMicros
    /\ \E t \in {u32_add(micros, <<0, 1>>)} \cup DueTimes :
          /\ t # micros
          /\ i32_ge(u32_sub(t, micros), <<0, 0>>)
          /\ micros' = t
    /\ UNCHANGED << pc, serial_rx, serial_tx, receiving, index, buffer,
                    motors, timers, host, seen, pulses, psvars, trajvars >>
    /\ last' = Op("fw_tick", 0, 0, "-", "-")

\* the board at power-up; the Pico's state plays no part
FwStart == Init /\ dma_free = MaxFreeDma

\* the decoder fed byte by byte; the motors' clock stands still
DecoderNext ==
    \/ FwSetup
    \/ \E k \in DecoderItems : HostSend(k)
    \/ ReadSerial
    \/ \E i \in Motors : FwUpdate(i)

DecoderSpec == FwStart /\ [][DecoderNext]_vars

\* the firmware fed whole frames, with its timers and its clock
FwNext ==
    \/ FwSetup
    \/ \E k \in FirmwareFrames : HostSendFrame(k)
    \/ ReadSerial
    \/ \E i \in Motors : FwUpdate(i)
    \/ \E i \in Motors : TimerPulse(i)
    \/ FwTick

FwSpec == FwStart /\ [][FwNext]_vars

(***************************************************************************)
(* The two hardware timers called directly, as DM542::startByTime and      *)
(* DM542::stop call them, with frequencies from one end of the 32-bit      *)
(* range to the other.                                                     *)
(***************************************************************************)
\* 1 Hz, 100 Hz, 3 kHz, 1 MHz, F_CPU/2, F_CPU/2 + 1, F_CPU, 2^31 + 1
TimerHz ==
    { <<0, 1>>, <<0, 100>>, <<0, 3000>>, u32(1000000), u32(F_CPU \div 2),
      u32(F_CPU \div 2 + 1), u32(F_CPU), <<H15, 1>> }

Timer1SetFreq(hz) ==
    /\ pc # "setup"
    /\ FwBecomes(timer1_set_freq(FwCur, hz))
    /\ UNCHANGED << pc, host, seen, pulses >>
    /\ last' = Op("timer1_set_freq", hz[1], hz[2], "-", "-")

Timer2SetFreq(hz) ==
    /\ pc # "setup"
    /\ FwBecomes(timer2_set_freq(FwCur, hz))
    /\ UNCHANGED << pc, host, seen, pulses >>
    /\ last' = Op("timer2_set_freq", hz[1], hz[2], "-", "-")

Timer1Stop ==
    /\ pc # "setup"
    /\ FwBecomes(timer1_stop(FwCur))
    /\ UNCHANGED << pc, host, seen, pulses >>
    /\ last' = Op("timer_stop", 0, 0, "-", "-")

Timer2Stop ==
    /\ pc # "setup"
    /\ FwBecomes(timer2_stop(FwCur))
    /\ UNCHANGED << pc, host, seen, pulses >>
    /\ last' = Op("timer_stop", 1, 0, "-", "-")

TimerNext ==
    \/ FwSetup
    \/ \E hz \in TimerHz : Timer1SetFreq(hz)
    \/ \E hz \in TimerHz : Timer2SetFreq(hz)
    \/ Timer1Stop
    \/ Timer2Stop

TimerSpec == FwStart /\ [][TimerNext]_vars

(***************************************************************************)
(* The trajectory engine fed commands with increasing timestamps.          *)
(***************************************************************************)
EngineStart(t_abs) ==
    /\ session_start_abs = -1
    /\ EngineBecomes(engine_start(EngineCur, t_abs))
    /\ last' = Op("start", t_abs, 0, "-", "-")

Feed(t_send_abs, k) ==
    /\ t_send_abs > t_fed
    /\ t_send_abs >= session_start_abs
    /\ \A e \in {feed(EngineCur, t_send_abs, Packets[k])} :
          /\ EngineBecomes(e)
          /\ last' = Op("feed", t_send_abs, k, "-", e.ret)

SetPresetSteps(x0_step, y0_step) ==
    /\ EngineBecomes(set_preset_steps(EngineCur, x0_step, y0_step))
    /\ last' = Op("set_preset_steps", x0_step, y0_step, "-", "-")

PoseAt(t_rel) ==
    /\ EngineBecomes(pose_at(EngineCur, t_rel))
    /\ last' = Op("pose_at", t_rel, 0, "-", "-")

TrajNext ==
    \/ \E t_abs \in 0 .. MaxStamp : EngineStart(t_abs)
    \/ \E x0_step \in PresetSet, y0_step \in PresetSet :
          SetPresetSteps(x0_step, y0_step)
    \/ \E t_rel \in QueryTimes : PoseAt(t_rel)
    \/ \E t_send_abs \in 0 .. MaxStamp, k \in DOMAIN Packets :
          Feed(t_send_abs, k)

TrajSpec == FwStart /\ [][TrajNext]_vars

(***************************************************************************)
(* Properties of the arbiter.                                              *)
(***************************************************************************)
\* COM2 holds a command whose end time has not been reached
Unexpired == com2_state = "Running" /\ now < com2_t_end

Queries == {"busy", "last_completion"}

\* the last operation was run_steps with steps > 0 and hz > 0
EffectiveRunSteps(l) == l.op = "run_steps" /\ l.a > 0 /\ l.b > 0

\* the last operation was run_pio_stream with words and a non-zero estimate
EffectiveStream(l) ==
    /\ l.op = "run_pio_stream"
    /\ ~StreamInputs[l.a].null
    /\ Len(StreamInputs[l.a].words) > 0
    /\ StreamInputs[l.a].est > 0

\* C1: a command B (run_steps with steps > 0 and hz > 0, or run_pio_stream
\* with words and a non-zero estimate) issued while command A is Running and
\* unexpired leaves COM1 = Interrupted and COM2 = Running; from then on, as
\* long as time stays before B's end, every busy() answers true and every
\* last_completion() answers Interrupted, and neither changes the pair.
C1_InterruptedUntilEnd ==
    [][ /\ (Unexpired /\ (EffectiveRunSteps(last') \/ EffectiveStream(last')))
            => (com1_reason' = "Interrupted" /\ com2_state' = "Running")
        /\ (/\ com1_reason = "Interrupted"
            /\ com2_state = "Running"
            /\ last'.op \in Queries \cup {"tick"}
            /\ now' < com2_t_end)
            => /\ com1_reason' = "Interrupted"
               /\ com2_state' = "Running"
               /\ com2_t_end' = com2_t_end
               /\ last'.op = "busy" => last'.ret = "true"
               /\ last'.op = "last_completion" => last'.ret = "Interrupted"
      ]_vars

\* a query made before the interrupting command ends has answered Interrupted
C1_Witness ==
    /\ last.op = "last_completion"
    /\ last.ret = "Interrupted"
    /\ com2_state = "Running"
    /\ now > 0

\* C2: run_steps(N, hz) with N > 0 and hz > 0 at time t0 installs a Running
\* command ending at t0 + floor(N * 10^6 / hz); while no other operation is
\* called, a query before that instant finds it busy and leaves it Running,
\* and a query at or after that instant finds it not busy with COM1 =
\* Completed.
C2_BusyUntilEnd ==
    [][ /\ EffectiveRunSteps(last')
            => /\ com2_state' = "Running"
               /\ com2_t_end' = now + ((last'.a * US_PER_S) \div last'.b)
        /\ (com2_state = "Running" /\ last'.op = "tick")
            => (com2_state' = "Running" /\ com2_t_end' = com2_t_end)
        /\ (com2_state = "Running" /\ last'.op \in Queries /\ now < com2_t_end)
            => /\ com2_state' = "Running"
               /\ com2_t_end' = com2_t_end
               /\ last'.op = "busy" => last'.ret = "true"
        /\ (com2_state = "Running" /\ last'.op \in Queries /\ now >= com2_t_end)
            => /\ com2_state' = "Empty"
               /\ com1_reason' = "Completed"
               /\ last'.op = "busy" => last'.ret = "false"
               /\ last'.op = "last_completion" => last'.ret = "Completed"
      ]_vars

\* a query at the end instant of a run_steps command has found it completed
C2_Witness ==
    /\ last.op = "busy"
    /\ last.ret = "false"
    /\ com1_reason = "Completed"
    /\ g_backend \in {"PWM", "PIO_PARAM"}
    /\ now = com2_t_end
    /\ now > 0

\* C3: stop() on a Running, unexpired command leaves COM2 = Empty, COM1 =
\* Stopped, the backend tracker None and the STEP pin on GPIO-SIO driving
\* low; afterwards the queries answer Stopped and leave COM1 alone.
C3_StopWhileRunning ==
    [][ /\ (Unexpired /\ last'.op = "stop")
            => /\ com2_state' = "Empty"
               /\ com1_reason' = "Stopped"
               /\ g_backend' = "None"
               /\ pin_func' = "SIO"
               /\ sio_low'
        /\ (com1_reason = "Stopped" /\ com2_state = "Empty"
                /\ last'.op \in Queries \cup {"tick"})
            => /\ com1_reason' = "Stopped"
               /\ com2_state' = "Empty"
               /\ last'.op = "busy" => last'.ret = "false"
               /\ last'.op = "last_completion" => last'.ret = "Stopped"
      ]_vars

\* a stop has ended a running command and a later query has reported it
C3_Witness ==
    /\ last.op = "last_completion"
    /\ last.ret = "Stopped"
    /\ g_backend = "None"
    /\ pin_func = "SIO"

\* the last operation was a no-op command: run_steps with steps = 0 or
\* hz = 0, run_velocity with hz = 0 or ms = 0, run_pio_stream with a null or
\* empty array or a zero estimate
NoOpCommand(l) ==
    \/ l.op = "run_steps" /\ (l.a = 0 \/ l.b = 0)
    \/ l.op = "run_velocity" /\ (l.a = 0 \/ l.b = 0)
    \/ l.op = "run_pio_stream" /\ ~EffectiveStream(l)

\* C4: a no-op command issued in any state leaves COM2 = Empty, COM1 =
\* Completed, the backend tracker None and the STEP pin on GPIO-SIO driving
\* low.
C4_NoOpLeavesEmpty ==
    NoOpCommand(last)
        => /\ com2_state = "Empty"
           /\ com1_reason = "Completed"
           /\ g_backend = "None"
           /\ pin_func = "SIO"
           /\ sio_low

Commands == {"run_steps", "run_velocity", "run_pio_stream"}

\* the call log of the command l applied to the current state
CommandLog(l) ==
    CASE l.op = "run_steps" -> run_steps(Cur, l.a, l.b, l.c).hw
      [] l.op = "run_velocity" -> run_velocity(Cur, l.a, l.b, l.c).hw
      [] l.op = "run_pio_stream" ->
            run_pio_stream(Cur, StreamInputs[l.a].null,
                           StreamInputs[l.a].words, StreamInputs[l.a].est).hw

IsPinMux(e) ==
    e[1] \in {"gpio_set_function_SIO", "gpio_set_function_PWM",
              "gpio_set_function_PIO"}

\* terminate_hardware is called for tracker value b, and no pin function is
\* selected before it
TerminatesFirst(log, b) ==
    \E i \in DOMAIN log :
        /\ log[i][1] = "terminate_hardware_" \o b
        /\ \A j \in 1 .. (i - 1) : ~IsPinMux(log[j])

\* C5: on every new-command entry (run_steps, run_velocity, run_pio_stream,
\* with any arguments), if COM2 is still Running after update(), the call
\* executes terminate_hardware() for the backend recorded in the tracker
\* before it re-multiplexes the pin, and the tracker is not overwritten
\* without it.
C5_TerminateBeforeNewCommand ==
    [][ (last'.op \in Commands /\ update(Cur).com2_state = "Running")
            => TerminatesFirst(CommandLog(last'), g_backend)
      ]_vars

\* C6: run_velocity(hz, ms, backend) leaves the same COM1, COM2, t_end and
\* backend tracker, and makes the same hardware calls, as
\* run_steps(duration_to_steps(ms / 1000, hz), hz, backend) from the same
\* state at the same time.
C6_VelocityEqualsSteps ==
    [][ last'.op = "run_velocity"
            => LET r == run_steps(Cur,
                                  duration_to_steps(last'.b * 1000, last'.a),
                                  last'.a, last'.c)
               IN  /\ com1_reason' = r.com1_reason
                   /\ com2_state' = r.com2_state
                   /\ com2_t_end' = r.com2_t_end
                   /\ g_backend' = r.g_backend
                   /\ CommandLog(last') = r.hw
      ]_vars

\* C7: run_pio_stream with valid words and estimate, when no DMA channel can
\* be claimed (motor_exec_stream_start returns -1), ends with COM2 = Empty
\* and COM1 = Completed.
C7_DmaFailureDropsCommand ==
    [][ (EffectiveStream(last') /\ dma_free = 0)
            => (com2_state' = "Empty" /\ com1_reason' = "Completed")
      ]_vars

\* the motor's PWM slice, or its PIO state machine, is producing pulses
PwmGenerating == pwm_enabled[MotorSlice]
PioGenerating == sm_enabled /\ sm_steps > 0

\* C8: in every state after init(), if neither the motor's PWM slice nor its
\* PIO state machine is generating pulses, the STEP pin is multiplexed to
\* GPIO-SIO as an output driving low.
C8_IdleLow ==
    (inited /\ ~PwmGenerating /\ ~PioGenerating)
        => (pin_func = "SIO" /\ sio_low)

\* C10: for any interrupt status mask, the wrap handler leaves every slice
\* outside active_slice_mask as it is: its pending interrupt, its
\* remaining_steps entry, its enable bit and its interrupt enable.
C10_HandlerFiltersOnActiveMask ==
    \A status \in SUBSET Slices :
        \A x \in Slices \ active_slice_mask :
            LET r == pwm_wrap_irq_handler(Cur, status)
            IN  /\ r.pwm_irq_pending[x] = pwm_irq_pending[x]
                /\ r.remaining_steps[x] = remaining_steps[x]
                /\ r.pwm_enabled[x] = pwm_enabled[x]
                /\ r.pwm_irq_enabled[x] = pwm_irq_enabled[x]

\* the handler has just served the motor's slice while the interrupt of the
\* other user's slice, which pwm_motor does not manage, is raised and enabled
C10_Witness ==
    /\ last.op = "pwm_wrap"
    /\ last.a = MotorSlice
    /\ probe.count > 0
    /\ remaining_steps[MotorSlice] < probe.n
    /\ OtherSlice \notin active_slice_mask
    /\ pwm_irq_pending[OtherSlice]
    /\ pwm_irq_enabled[OtherSlice]

(***************************************************************************)
(* The PWM backend on its own, driven as the PWM test program drives it:   *)
(* pwm_motor_init, then runs and stops.  A run or a stop is issued only    *)
(* while the slice is off, so that every run is left to its wrap           *)
(* interrupts; the counter of an enabled slice keeps wrapping.             *)
(***************************************************************************)
PwmTestInit ==
    /\ ~inited
    /\ ~pwm_enabled[MotorSlice]
    /\ Commit(pwm_motor_init(Cur))
    /\ last' = Op("pwm_motor_init", 0, 0, "-", "-")

PwmTestRun(freq_hz, steps) ==
    /\ ~inited
    /\ irq_installed
    /\ ~pwm_enabled[MotorSlice]
    /\ Commit(pwm_motor_run(Cur, freq_hz, steps))
    /\ last' = Op("pwm_motor_run", freq_hz, steps, "-", "-")

PwmTestStop ==
    /\ ~inited
    /\ irq_installed
    /\ ~pwm_enabled[MotorSlice]
    /\ Commit(pwm_motor_stop(Cur))
    /\ last' = Op("pwm_motor_stop", 0, 0, "-", "-")

PwmNext ==
    \/ PwmTestInit
    \/ \E freq_hz \in HzSet, steps \in StepsSet : PwmTestRun(freq_hz, steps)
    \/ PwmTestStop
    \/ \E slice \in Slices : PwmWrap(slice)
    \/ OtherPwmUser

PwmSpec == Init /\ [][PwmNext]_vars /\ WF_vars(PwmWrap(MotorSlice))

\* C9: after pwm_motor_run(pin, hz, N) with hz > 0 and N > 0, left to run,
\* the slice stays enabled, with its interrupt enabled and its bit set in
\* active_slice_mask, while wraps (pulses) plus remaining_steps equal N and
\* remaining_steps >= 1; every wrap decrements remaining_steps by one; and
\* the slice is eventually disabled, at which point exactly N pulses have
\* been produced, the interrupt is disabled and the bit is cleared.
C9_ExactlyNPulses ==
    /\ [](pwm_enabled[MotorSlice]
            => /\ remaining_steps[MotorSlice] >= 1
               /\ probe.count + remaining_steps[MotorSlice] = probe.n
               /\ pwm_irq_enabled[MotorSlice]
               /\ MotorSlice \in active_slice_mask)
    /\ []((~pwm_enabled[MotorSlice] /\ probe.n > 0)
            => /\ probe.count = probe.n
               /\ remaining_steps[MotorSlice] = 0
               /\ ~pwm_irq_enabled[MotorSlice]
               /\ MotorSlice \notin active_slice_mask)
    /\ [][ /\ (last'.op = "pwm_motor_run" /\ last'.a > 0 /\ last'.b > 0)
              => /\ pwm_enabled'[MotorSlice]
                 /\ remaining_steps'[MotorSlice] = last'.b
                 /\ probe' = [n |-> last'.b, count |-> 0]
           /\ (last'.op = "pwm_wrap" /\ last'.a = MotorSlice)
              => /\ remaining_steps'[MotorSlice] = remaining_steps[MotorSlice] - 1
                 /\ pwm_enabled'[MotorSlice] = (remaining_steps[MotorSlice] > 1)
         ]_vars
    /\ (pwm_enabled[MotorSlice]
          ~> (~pwm_enabled[MotorSlice] /\ probe.count = probe.n))

\* a run of more than one pulse has been ended by the handler on its last wrap
C9_Witness ==
    /\ last.op = "pwm_wrap"
    /\ last.a = MotorSlice
    /\ ~pwm_enabled[MotorSlice]
    /\ probe.n > 1
    /\ probe.count = probe.n

(***************************************************************************)
(* Properties of the firmware's frame decoder.                             *)
(***************************************************************************)
\* the number of bytes the decoder has read
Consumed == Len(seen.was_idle)

\* the number of bytes sent before item number k of the sender
RECURSIVE ItemStart(_)
ItemStart(k) ==
    IF k <= 1 THEN 0 ELSE ItemStart(k - 1) + Len(Items[host.sent[k - 1]])

\* the bytes of the items the sender has begun, in order
RECURSIVE BytesOf(_)
BytesOf(sent) ==
    IF sent = << >> THEN << >> ELSE Items[Head(sent)] \o BytesOf(Tail(sent))

SentFrames == {k \in DOMAIN host.sent : IsFrame(Items[host.sent[k]])}

FullyRead(k) == ItemStart(k) + FRAME_LENGTH <= Consumed
PartlyRead(k) ==
    ItemStart(k) < Consumed /\ Consumed < ItemStart(k) + FRAME_LENGTH

\* the decoder was Idle when the first byte of item k reached it
MetIdle(k) == ItemStart(k) < Consumed /\ seen.was_idle[ItemStart(k) + 1]

\* the calls of processFrame made while the bytes of item k were read
DecodedIn(k) ==
    {d \in DOMAIN seen.decoded :
        /\ ItemStart(k) < seen.decoded[d].at
        /\ seen.decoded[d].at <= ItemStart(k) + FRAME_LENGTH}

\* processFrame was called once for item k: at its last byte, with its bytes
DecodedOnce(k) ==
    \E d \in DecodedIn(k) :
        /\ DecodedIn(k) = {d}
        /\ seen.decoded[d].at = ItemStart(k) + FRAME_LENGTH
        /\ seen.decoded[d].bytes = Items[host.sent[k]]

\* the decoder was Idle after the last byte of item k
IdleAfter(k) ==
    IF Consumed > ItemStart(k) + FRAME_LENGTH
    THEN seen.was_idle[ItemStart(k) + FRAME_LENGTH + 1]
    ELSE ~receiving

\* C12: a valid 11-byte frame whose first byte meets the decoder Idle,
\* however its bytes are split over successive readSerial() calls: while
\* only part of it has been read the decoder is Receiving with index = the
\* number of its bytes read and processFrame has not been called; once all
\* of it has been read processFrame has been called exactly once, with
\* exactly its 11 bytes, and the decoder is Idle.
C12_SplitFrameDecodedOnce ==
    \A k \in SentFrames :
        MetIdle(k) =>
            /\ PartlyRead(k) => /\ receiving
                                /\ index = Consumed - ItemStart(k)
                                /\ DecodedIn(k) = {}
            /\ FullyRead(k) => (DecodedOnce(k) /\ IdleAfter(k))

\* a frame has been decoded whose 11 bytes were read by 11 calls
C12_Witness ==
    /\ last.op = "readSerial"
    /\ host.sent # << >>
    /\ Len(host.sent) \in SentFrames
    /\ MetIdle(Len(host.sent))
    /\ Consumed = ItemStart(Len(host.sent)) + FRAME_LENGTH
    /\ DecodedOnce(Len(host.sent))
    /\ seen.reads = FRAME_LENGTH

\* byte values other than the two headers
JunkBytes == {0, 1, 174, 176, 190, 192, 255}

\* C13: a byte other than 0xBF / 0xAF read while the decoder is Idle is
\* discarded: the decoder stays Idle, index, buffer, motors and timers are
\* unchanged, processFrame is not called, no motor is started and nothing
\* is printed; so a readSerial() call that finds only such bytes, the
\* decoder being Idle, changes none of these.
C13_JunkDiscardedInIdle ==
    /\ [](~receiving =>
            \A b \in JunkBytes :
                LET r == read_byte(FwCur, b)
                IN  /\ ~r.receiving
                    /\ r.index = index
                    /\ r.buffer = buffer
                    /\ r.motors = motors
                    /\ r.timers = timers
                    /\ r.serial_tx = serial_tx
                    /\ \A j \in DOMAIN r.log : r.log[j][1] = "read")
    /\ [][ (/\ last'.op = "readSerial"
            /\ ~receiving
            /\ \A j \in DOMAIN serial_rx : serial_rx[j] \notin Headers)
            => /\ ~receiving'
               /\ index' = index
               /\ buffer' = buffer
               /\ motors' = motors
               /\ serial_tx' = serial_tx
               /\ seen'.decoded = seen.decoded
               /\ seen'.handed = seen.handed
         ]_vars

\* readSerial has just read a stray byte, which met the decoder Idle
C13_Witness ==
    /\ last.op = "readSerial"
    /\ last.a > 0
    /\ Consumed > 0
    /\ seen.was_idle[Consumed]
    /\ BytesOf(host.sent)[Consumed] \notin Headers
    /\ ~receiving

\* C14: a complete valid frame sent after a short frame (a header and fewer
\* than 10 further bytes) is decoded exactly once, with its own bytes.
C14_ResyncAfterShortFrame ==
    \A k \in SentFrames :
        (k > 1 /\ IsShortFrame(Items[host.sent[k - 1]]) /\ FullyRead(k))
            => DecodedOnce(k)

\* C16: nothing is printed before setup(); READY is the first line and is
\* printed once; every other line is OK, one for each call of processFrame,
\* each of which had a known header and its own 11 bytes read; bytes
\* discarded and frames not yet complete print nothing.
C16_ReadyThenOkPerFrame ==
    /\ pc = "setup" => serial_tx = << >>
    /\ pc # "setup" =>
          /\ Len(serial_tx) = 1 + Len(seen.decoded)
          /\ serial_tx[1] = "READY"
          /\ \A j \in 2 .. Len(serial_tx) : serial_tx[j] = "OK"
    /\ \A d \in DOMAIN seen.decoded : seen.decoded[d].bytes[1] \in Headers
    /\ Len(seen.decoded) * FRAME_LENGTH <= Consumed

\* one frame, which selects no motor, has been answered by one OK; the
\* other bytes read have been answered by nothing
C16_Witness ==
    /\ serial_tx = << "READY", "OK" >>
    /\ Len(seen.decoded) = 1
    /\ seen.decoded[1].bytes[2] = 0
    /\ Consumed > FRAME_LENGTH

(***************************************************************************)
(* Properties of the firmware's commands.                                  *)
(***************************************************************************)
\* |w| of the signed word w, as an unsigned word
Abs32(w) == IF i32_is_neg(w) THEN i32_neg(w) ELSE w

\* the frame the decoder handed over last
LastDecoded == seen.decoded[Len(seen.decoded)].bytes

\* C15: every command handed to a motor carries the absolute value of the
\* frame's magnitude field, and a speed >= 1 that is the absolute value of
\* the frame's speed field when that field is not zero, for every 32-bit
\* value of the fields, the most negative one included.
C15_FieldsNormalised ==
    \A j \in DOMAIN seen.handed :
        LET c == seen.handed[j]
            speed == frame_field(LastDecoded, 3)
            magnitude == frame_field(LastDecoded, 7)
        IN  /\ c.magnitude = Abs32(magnitude)
            /\ ~u32_lt(c.speed, <<0, 1>>)
            /\ speed # <<0, 0>> => c.speed = Abs32(speed)

\* bit i of the mask byte
MaskBit(mask, i) == (mask \div (2^i)) % 2 = 1

\* the motors started by the calls in a log, in order
StartedIn(log) ==
    SelectSeq(log, LAMBDA e : e[1] \in {"start", "startByPulse"})

\* C17: a readSerial() call that decodes a frame starts, inside its
\* processFrame call and before OK is printed, every motor whose bit of the
\* motor mask is set, in the mode of the frame's header and with the
\* direction of its bit of the direction mask, and no update() has run when
\* it returns; a motor whose bit is clear keeps its state, its timer and its
\* pulses.
C17_AllAddressedMotorsStart ==
    [][ (last'.op = "readSerial" /\ Len(seen'.decoded) > Len(seen.decoded))
         => \A r \in {readSerial(FwCur)} :
            LET f == r.buffer
                addressed == {i \in Motors : MaskBit(f[2], i)}
                started == StartedIn(r.log)
            IN  /\ pc' = UpdatePc(0)
                /\ r.log[Len(r.log)] = << "println", "OK" >>
                /\ r.log[Len(r.log) - Len(started) - 1][1] = "processFrame"
                /\ {started[j][2] : j \in DOMAIN started} = addressed
                /\ Len(started) = Cardinality(addressed)
                /\ \A i \in Motors :
                      IF i \in addressed
                      THEN /\ motors'[i].running
                           /\ motors'[i].pulseMode = (f[1] = FRAME_HEADER_PULSE)
                           /\ motors'[i].dirLevel = MaskBit(f[3], i)
                           /\ motors'[i].pulseCounter = <<0, 0>>
                      ELSE /\ motors'[i] = motors[i]
                           /\ timers'[i] = timers[i]
                           /\ pulses'[i] = pulses[i]
      ]_vars

\* one frame has started both motors, in opposite directions
C17_Witness ==
    /\ last.op = "readSerial"
    /\ Len(seen.handed) = NUM_MOTORS
    /\ \A i \in Motors : motors[i].running
    /\ motors[0].dirLevel # motors[1].dirLevel
    /\ pc = UpdatePc(0)

\* C19: a motor running a pulse-count command has emitted at most
\* targetPulses pulses on its pin since the command started, and exactly
\* targetPulses when the command has stopped running, whatever the motor was
\* doing when the command started.
C19_StepBoundedExactlyN ==
    \A i \in Motors :
        motors[i].pulseMode =>
            IF motors[i].running
            THEN ~u32_lt(motors[i].targetPulses, u32(pulses[i]))
            ELSE u32(pulses[i]) = motors[i].targetPulses

\* the time command the last frame has handed to motor i, if any
TimeCommands(i) ==
    { seen.handed[k] : k \in { j \in DOMAIN seen.handed :
                                 /\ seen.handed[j].motor = i
                                 /\ seen.handed[j].call = "start" } }

\* C33: a time command of D ms started at micros() = t0 is stopped by the
\* first update() whose elapsed time (now - t0) modulo 2^32 is at least
\* D * 1000 microseconds, and by no update() before it, for every t0 and
\* every D; stated here for the D whose D * 1000 is below 2^32.
C33_TimeCommandRunsItsDuration ==
    [][\A i \in Motors : \A h \in TimeCommands(i) :
          (/\ last'.op = "update"
           /\ last'.a = i
           /\ motors[i].running
           /\ ~motors[i].pulseMode
           /\ u32_lt(h.magnitude, u32(4294968)))
          => LET d  == u32_mul(h.magnitude, 1000)
                 t0 == u32_sub(motors[i].stopTime, d)
             IN  motors'[i].running = u32_lt(u32_sub(micros, t0), d)]_vars

\* C34: in every state reached after init(), COM2 == Running implies that
\* the motor's backend tracker is not None, so that a later stop() or an
\* interrupting command stops the backend that is producing the pulses.
C34_RunningHasBackend ==
    (inited /\ com2_state = "Running") => g_backend # "None"

\* the arbiter's operations with every DMA channel of the pool free at the
\* start
PoolFree == Init /\ dma_free = MaxFreeDma

DmaSpec == PoolFree /\ [][Next]_vars

\* C35: whatever run_pio_stream, run_steps, run_velocity and stop calls are
\* made, a DMA channel claimed by motor_exec_stream_start is released once
\* its stream is superseded, stopped or finished: at most one channel is
\* claimed, and none when no stream is the running command, so that the
\* pool is not exhausted by streams of the past.
C35_DmaChannelsReleased ==
    [][last'.op \in {"run_pio_stream", "run_steps", "run_velocity", "stop"} =>
          MaxFreeDma - dma_free'
              <= (IF com2_state' = "Running" /\ g_backend' = "PIO_STREAM"
                  THEN 1 ELSE 0)]_vars

\* C39: for every sequence of input bytes, every store into the 11-byte
\* frame buffer is made at an index in 0 .. 10, index never exceeds 11, and
\* processFrame is called only with index = 11 and a known header in
\* buffer[0].
C39_DecoderStaysInBuffer ==
    /\ index \in 0 .. FRAME_LENGTH
    /\ seen.stored \subseteq 0 .. (FRAME_LENGTH - 1)
    /\ seen.called \subseteq {FRAME_LENGTH}
    /\ \A d \in DOMAIN seen.decoded : seen.decoded[d].bytes[1] \in Headers

\* a frame has been handed to processFrame, junk has been discarded after
\* it and the header of the next frame has been stored at index 0
C39_Witness ==
    /\ Len(seen.decoded) = 1
    /\ seen.stored = 0 .. (FRAME_LENGTH - 1)
    /\ seen.called = {FRAME_LENGTH}
    /\ Consumed > FRAME_LENGTH
    /\ receiving
    /\ index = 1

(***************************************************************************)
(* Progress of the firmware.  loop() runs for ever, so setup(), readSerial *)
(* and the update of each motor are taken whenever they are the next call  *)
(* of main(); micros() keeps advancing, so the clock reaches the next      *)
(* instant at which a running motor is due.                                *)
(***************************************************************************)
\* micros() advances to an instant at which a running motor is due
FwAdvance ==
    /\ pc # "setup"
    /\ \E t \in DueTimes :
          /\ t # micros
          /\ i32_ge(u32_sub(t, micros), <<0, 0>>)
          /\ micros' = t
    /\ UNCHANGED << pc, serial_rx, serial_tx, receiving, index, buffer,
                    motors, timers, host, seen, pulses, psvars, trajvars >>
    /\ last' = Op("fw_advance", 0, 0, "-", "-")

\* the pulses of the timers on the pins play no part in a motor's stopping
\* and are left out
LiveNext ==
    \/ FwSetup
    \/ \E k \in FirmwareFrames : HostSendFrame(k)
    \/ ReadSerial
    \/ \E i \in Motors : FwUpdate(i)
    \/ FwTick
    \/ FwAdvance

\* main() goes on to its next call: setup() returns into loop(), which is
\* readSerial() and then the update of each motor in turn; only FwSetup,
\* ReadSerial and FwUpdate move pc
MainTurns ==
    pc' = CASE pc = "setup" -> "readSerial"
            [] pc = "readSerial" -> UpdatePc(0)
            [] pc = UpdatePc(NUM_MOTORS - 1) -> "readSerial"
            [] OTHER -> UpdatePc(1)

LiveSpec ==
    /\ FwStart
    /\ [][LiveNext]_vars
    /\ WF_pc(MainTurns)
    /\ WF_vars(FwAdvance)

\* C40: while loop() keeps executing and micros() keeps advancing, a motor
\* that is running reaches running == false, whatever frames have started
\* it: no sequence of commands leaves a motor running for ever.
C40_EveryMotorStops ==
    \A i \in Motors : motors[i].running ~> ~motors[i].running

\* motor 0 has made the two steps of a pulse command that replaced its time
\* command and has stopped; motor 1 has reached the stop time of its time
\* command and has stopped
C40_Witness ==
    /\ motors[0].pulseMode
    /\ motors[0].pulseCounter = u32(2)
    /\ ~motors[0].running
    /\ ~motors[1].pulseMode
    /\ motors[1].stopTime # <<0, 0>>
    /\ ~motors[1].running

(***************************************************************************)
(* The PWM driver under preemption.  The main thread runs pwm_motor_init,  *)
(* then pwm_motor_run and pwm_motor_stop on the pins of the two slices;    *)
(* the wrap interrupt can be taken between any two of its instructions,    *)
(* here between the load and the store of its statement on                 *)
(* active_slice_mask.  The handler itself is not interrupted.              *)
(***************************************************************************)
IrqInit ==
    /\ ~irq_installed
    /\ Becomes(pwm_motor_init(Cur))
    /\ UNCHANGED probe
    /\ last' = Op("pwm_motor_init", 0, 0, "-", "-")

IrqRunLoad(slice, freq_hz, steps) ==
    /\ irq_installed
    /\ rmw = NoRmw
    /\ Becomes(pwm_motor_run_load(Cur, slice, freq_hz, steps))
    /\ UNCHANGED probe
    /\ last' = Op("pwm_motor_run.load", slice, steps, "-", "-")

IrqRunStore ==
    /\ rmw.at = "|="
    /\ Becomes(pwm_motor_run_store(Cur))
    /\ UNCHANGED probe
    /\ last' = Op("pwm_motor_run.store", rmw.slice, 0, "-", "-")

IrqStopLoad(slice) ==
    /\ irq_installed
    /\ rmw = NoRmw
    /\ Becomes(pwm_motor_stop_load(Cur, slice))
    /\ UNCHANGED probe
    /\ last' = Op("pwm_motor_stop.load", slice, 0, "-", "-")

IrqStopStore ==
    /\ rmw.at = "&="
    /\ Becomes(pwm_motor_stop_store(Cur))
    /\ UNCHANGED probe
    /\ last' = Op("pwm_motor_stop.store", rmw.slice, 0, "-", "-")

IrqNext ==
    \/ IrqInit
    \/ \E slice \in Slices, freq_hz \in HzSet, steps \in StepsSet :
          IrqRunLoad(slice, freq_hz, steps)
    \/ IrqRunStore
    \/ \E slice \in Slices : IrqStopLoad(slice)
    \/ IrqStopStore
    \/ \E slice \in Slices : PwmWrap(slice)

IrqSpec == PoolFree /\ [][IrqNext]_vars

\* C37: under every interleaving of the wrap interrupt handler with the main
\* thread's load and store of active_slice_mask in pwm_motor_run and
\* pwm_motor_stop, the bit of a slice s other than the one the main thread
\* is acting on is set in active_slice_mask only while remaining_steps[s] is
\* positive: a bit the handler has cleared is not set again by the main
\* thread's store.
C37_MaskBitOnlyWhileStepsRemain ==
    \A s \in Slices :
        (rmw = NoRmw \/ rmw.slice # s) =>
            (s \in active_slice_mask => remaining_steps[s] > 0)

\* C36: after setup(), through every sequence of 0xBF and 0xAF frames and
\* loop() iterations, a motor that is not running a time command (it is idle
\* or running a pulse-count command) has its timer's compare output
\* disconnected from the STEP pin, so the timer is not toggling the pin.
C36_TimerOffOutsideTimeMode ==
    pc # "setup" =>
        \A i \in Motors :
            ~(motors[i].running /\ ~motors[i].pulseMode) => ~timers[i].com

(***************************************************************************)
(* Properties of the firmware's timers.                                    *)
(***************************************************************************)
\* C26: after timer1_stop() and after timer2_stop() the clock-select bits of
\* the respective timer are all cleared (the counter is halted), its compare
\* output is disconnected from the pin, and the STEP pin is driven low.
C26_TimerStopHalts ==
    [][last'.op = "timer_stop" =>
          /\ timers'[last'.a].cs = 0
          /\ ~timers'[last'.a].com
          /\ timers'[last'.a].port = 0]_vars

\* f_cpu / (2 * hz) - 1 in the integers, clamped into [1, 65535]; above
\* 123 * 2^16 Hz the quotient is 0
Timer1Top(hz) ==
    IF hz[1] >= 123 THEN 1
    ELSE LET top == (F_CPU \div 2) \div u32_val(hz) - 1
         IN  IF top > 65535 THEN 65535 ELSE IF top < 1 THEN 1 ELSE top

\* C27: for every hz >= 1 of 32 bits timer1_set_freq(hz) writes into OCR1A
\* the mathematical value f_cpu / (2 * hz) - 1 clamped into [1, 65535], so
\* that a frequency above f_cpu / 2 gives the top 1, connects the compare
\* output and starts the counter with the prescaler 1.
C27_Timer1TopClamped ==
    [][last'.op = "timer1_set_freq" =>
          /\ timers'[0].ocr = Timer1Top(<< last'.a, last'.b >>)
          /\ timers'[0].com
          /\ timers'[0].cs = 1]_vars

\* the top of prescaler p for hz in the integers, f_cpu / (2 * p * hz) - 1,
\* and the frequency the pair gives
Timer2Top(p, hz) ==
    IF hz[1] >= 123 THEN -1 ELSE (F_CPU \div (2 * p)) \div u32_val(hz) - 1

Timer2Real(p, top) == F_CPU \div (2 * p * (top + 1))

Timer2Fits(hz) ==
    { p \in {PRESC[i] : i \in DOMAIN PRESC} :
        Timer2Top(p, hz) >= 0 /\ Timer2Top(p, hz) <= 255 }

Timer2Err(p, top, hz) ==
    IF Timer2Real(p, top) > u32_val(hz) THEN Timer2Real(p, top) - u32_val(hz)
    ELSE u32_val(hz) - Timer2Real(p, top)

\* C28: every call timer2_set_freq(hz) computes both the prescaler and
\* OCR2A from hz alone, whatever OCR2A a call before has left, and the pair
\* it chooses has the least |f_real - hz| of all prescalers whose top is at
\* most 255.
C28_Timer2Recomputed ==
    [][last'.op = "timer2_set_freq" =>
          LET hz == << last'.a, last'.b >>
          IN  /\ \A o \in {0, OCR2A_DEFAULT, 255} :
                    LET r == timer2_set_freq(
                                 [FwCur EXCEPT !.timers[1].ocr = o], hz)
                    IN  /\ r.timers[1].ocr = timers'[1].ocr
                        /\ r.timers[1].cs = timers'[1].cs
              /\ Timer2Fits(hz) # {} =>
                    /\ timers'[1].cs \in Timer2Fits(hz)
                    /\ timers'[1].ocr = Timer2Top(timers'[1].cs, hz)
                    /\ \A p \in Timer2Fits(hz) :
                          Timer2Err(timers'[1].cs, timers'[1].ocr, hz)
                              <= Timer2Err(p, Timer2Top(p, hz), hz)]_vars

C21_OverwriteTruncates ==
    [][ (last'.op = "feed" /\ last'.ret = "Command")
         => \A a \in Axes :
            LET cmd == Packets[last'.b]
                t_cmd == last'.a - session_start_abs'
                old == segments[a]
                new == segments'[a]
            IN  (/\ MaskBit(cmd.motor_mask, a)
                 /\ old # << >>
                 /\ old[Len(old)].t_end > t_cmd)
                => /\ Len(new) = Len(old) + 1
                   /\ new[Len(old)] = [old[Len(old)] EXCEPT !.t_end = t_cmd]
                   /\ \A n \in 1 .. (Len(old) - 1) : new[n] = old[n]
                   /\ new[Len(new)].t_start = t_cmd
                   /\ new[Len(new)].velocity = velocity_of(cmd, a)
                   /\ \A t \in QueryTimes :
                         t >= t_cmd =>
                            pose_axis(new, preset_steps'[a], t)
                              = pose_axis(old, preset_steps[a], t_cmd)
                                + velocity_of(cmd, a)
                                  * Min(t - t_cmd, duration_of(cmd))
      ]_vars

\* +1000 Hz for 2 ms fed at 0, -1000 Hz for 3 ms fed at 1: pose_at(4) is the
\* preset plus 1 - 3 steps
C21_Witness ==
    /\ last.op = "pose_at"
    /\ last.a = 4
    /\ Len(segments[0]) = 2
    /\ segments[0][1] = [t_start |-> 0, t_end |-> 1, velocity |-> 1000,
                         x_at_start |-> 0]
    /\ segments[0][2] = [t_start |-> 1, t_end |-> 4, velocity |-> -1000,
                         x_at_start |-> 1000]
    /\ preset_steps[0] = 7
    /\ pose[0] = 7000 - 2000

\* C22: pose_at(t) returns, for each axis, exactly the preset when the axis
\* has no segment or t is before its first segment, and the preset plus the
\* terminal position of its last segment when t is at or after that
\* segment's end; set_preset_steps creates no segment.
C22_PoseOutsideMotion ==
    /\ [](last.op = "pose_at" =>
            \A a \in Axes :
               LET segs == segments[a]
                   t == last.a
               IN  /\ (segs = << >> \/ t < segs[1].t_start)
                         => pose[a] = 1000 * preset_steps[a]
                   /\ (segs # << >> /\ t >= segs[Len(segs)].t_end)
                         => pose[a] = 1000 * preset_steps[a]
                                      + x_in(segs[Len(segs)],
                                             segs[Len(segs)].t_end))
    /\ [][ last'.op = "set_preset_steps"
             => /\ segments' = segments
                /\ session_start_abs' = session_start_abs ]_vars

\* pose_at asked after the end of the X axis's motion, the Y axis having a
\* preset and no command
C22_Witness ==
    /\ last.op = "pose_at"
    /\ segments[0] # << >>
    /\ last.a > segments[0][Len(segments[0])].t_end
    /\ preset_steps = [a \in Axes |-> 7]
    /\ pose[0] # 7000
    /\ segments[1] = << >>
    /\ pose[1] = 7000

(***************************************************************************)
(* The arbiter given velocity commands, as the host's commands reach it,   *)
(* and the trajectory engine's account of the same commands.               *)
(***************************************************************************)
VelHzInputs == {400, 1000, 1500}
VelMsInputs == {1, 2}

VelNext ==
    \/ PsInit
    \/ \E freq_hz \in VelHzInputs, duration_ms \in VelMsInputs,
          backend \in Backends : RunVelocity(freq_hz, duration_ms, backend)
    \/ Stop
    \/ Busy
    \/ Tick

VelSpec == Init /\ [][VelNext]_vars

\* the last operation was run_velocity(hz >= 1, ms >= 1) on an idle motor
VelocityOnIdle(l) ==
    /\ l.op = "run_velocity"
    /\ l.a >= 1
    /\ l.b >= 1
    /\ update(Cur).com2_state = "Empty"

\* the packet of the TimeBounded command run_velocity(hz, ms) executes
TimeBoundedPacket(hz, ms) ==
    [valid |-> TRUE, header |-> FRAME_HEADER_TIME, motor_mask |-> 1,
     direction_mask |-> 0, speed_hz |-> hz, magnitude |-> ms]

\* the displacement of the engine's segment for a command, in 1/1000 step
SegmentDisplacement(cmd) == velocity_of(cmd, 0) * duration_of(cmd)

\* hz * ms / 1000 rounded to the nearest whole number of steps
NearestSteps(hz, ms) == (2 * hz * ms + 1000) \div 2000

ArbiterOps == {l.op : l \in PairCalls}
PeerOps == {"peer." \o l.op : l \in PairCalls}

ResetProtocol ==
    << <<"pio_sm_disable", 0, 0>>, <<"pio_sm_clear_fifos", 0, 0>>,
       <<"pio_sm_restart", 0, 0>>, <<"pio_sm_set_pins", 0, 0>>,
       <<"pio_sm_exec_set_pins", 0, 0>>, <<"pio_sm_enable", 0, 0>> >>

\* the calls that push a command to the state machine
IsPush(e) == e[1] \in {"pio_sm_put_blocking", "dma_channel_configure"}

\* the log pushes a command, and the calls just before the first push are
\* the reset protocol
ResetBeforePush(log) ==
    \E p \in DOMAIN log :
        /\ IsPush(log[p])
        /\ \A j \in 1 .. (p - 1) : ~IsPush(log[j])
        /\ p > Len(ResetProtocol)
        /\ \A j \in DOMAIN ResetProtocol :
              log[p - Len(ResetProtocol) - 1 + j] = ResetProtocol[j]

\* C24: every command that pushes words to the PIO state machine, run_steps
\* on the PIO backend as well as run_pio_stream, first disables the state
\* machine, clears its FIFOs, restarts it, forces the pin to 0 by set-pins
\* and by an executed SET PINS, 0, and enables it again, in this order.
C24_ResetBeforePioPush ==
    [][ (last'.op \in Commands
           /\ \E j \in DOMAIN CommandLog(last') : IsPush(CommandLog(last')[j]))
         => \A log \in {CommandLog(last')} : ResetBeforePush(log)
      ]_vars

\* C11: pwm_motor_stop(pin), called in any state, leaves the pin's slice
\* disabled, its wrap interrupt disabled, remaining_steps[slice] = 0, its
\* bit of active_slice_mask cleared, and the pin a GPIO output driving low.
C11_PwmStopLeavesPinLow ==
    LET r == pwm_motor_stop(Cur)
    IN  irq_installed =>
        /\ ~r.pwm_enabled[MotorSlice]
        /\ ~r.pwm_irq_enabled[MotorSlice]
        /\ r.remaining_steps[MotorSlice] = 0
        /\ MotorSlice \notin r.active_slice_mask
        /\ r.pin_func = "SIO"
        /\ r.sio_low

\* the call log of the operation l applied to the current state
OperationLog(l) ==
    IF l.op = "stop" THEN stop(Cur).hw ELSE CommandLog(l)

\* the enable bit after the first i entries of a call log, for a bit that
\* was v before the log and that the entries numbered in ons switch on and
\* those numbered in offs switch off
BitAfter(ons, offs, v, i) ==
    LET before == {j \in ons \cup offs : j <= i}
    IN  IF before = {} THEN v
        ELSE (CHOOSE j \in before : \A k \in before : k <= j) \in ons

\* at some point of the call log, started with the enable bits (pwm_on,
\* sm_on), the motor's PWM slice and its state machine are both enabled
BothEnabledDuring(log, pwm_on, sm_on) ==
    LET pwm_ons  == {i \in DOMAIN log : log[i][1] = "pwm_enable"
                                           /\ log[i][2] = MotorSlice}
        pwm_offs == {i \in DOMAIN log : log[i][1] \in {"pwm_disable", "pwm_init"}
                                           /\ log[i][2] = MotorSlice}
        sm_ons   == {i \in DOMAIN log : log[i][1] = "pio_sm_enable"}
        sm_offs  == {i \in DOMAIN log :
                        log[i][1] \in {"pio_sm_disable", "pio_sm_init"}}
    IN  \/ pwm_on /\ sm_on
        \/ \E i \in pwm_ons \cup sm_ons :
              /\ BitAfter(pwm_ons, pwm_offs, pwm_on, i)
              /\ BitAfter(sm_ons, sm_offs, sm_on, i)

\* C18: after init(), over any sequence of init, run_steps, run_velocity,
\* run_pio_stream and stop calls, the motor's PWM slice and its PIO state
\* machine are never enabled at the same time: not between two calls, and
\* not at any point inside a command or a stop, where the backend that was
\* active is switched off before the new one is switched on.
C18_OneBackendEnabled ==
    /\ [](inited => ~(pwm_enabled[MotorSlice] /\ sm_enabled))
    /\ [][ (last'.op \in Commands \cup {"stop"})
             => \A log \in {OperationLog(last')} :
                   ~BothEnabledDuring(log, pwm_enabled[MotorSlice], sm_enabled)
         ]_vars

\* a PWM command has interrupted a running command and switched its slice
\* on; the state machine, which a PIO command had enabled, is off
C18_Witness ==
    /\ last.op = "run_steps"
    /\ last.c = "PWM"
    /\ last.a > 0 /\ last.b > 0
    /\ com1_reason = "Interrupted"
    /\ pwm_enabled[MotorSlice]
    /\ ~sm_enabled
    /\ dma_free < MaxFreeDma

(***************************************************************************)
(* The conversions of the time model applied to speeds, periods and        *)
(* revolution rates, in both revisions of the PIO helpers.                 *)
(***************************************************************************)
Revisions == {"pio_exec.cpp", "part_000"}

\* step periods of a whole number of system cycles
PeriodCycles == {1, 2, 4, 5, 8, 10, 16, 20, 25, 32, 40, 50, 64, 80, 100, 125}

DutyHzInputs ==
    {-1, 0, 7, 1500000, 20000000, 40000000, 200000000}
        \cup {F_SYS \div n : n \in PeriodCycles}

DutyPeriodInputs ==
    {-8, 0} \cup {(n * 1000) \div pio_freq_per_us : n \in PeriodCycles}

DutyRpmInputs == {-60, 0, 60, 600, 6000}
DutyPprInputs == {0, 200, 1000}

HzToDuty(rev, hz) ==
    /\ last' = Op("hz_to_duty_period", hz, 0, rev,
                  IF rev = "part_000" THEN hz_to_duty_period_rev0(hz)
                  ELSE hz_to_duty_period(hz))
    /\ UNCHANGED << psvars, fwvars, trajvars >>

PeriodToDuty(rev, period_ns) ==
    /\ last' = Op("period_to_duty_period", period_ns, 0, rev,
                  IF rev = "part_000"
                  THEN period_to_duty_period_rev0(period_ns)
                  ELSE period_to_duty_period(period_ns))
    /\ UNCHANGED << psvars, fwvars, trajvars >>

RpmToDuty(rev, rpm, pulses_per_rev) ==
    /\ last' = Op("rpm_to_duty_period", rpm, pulses_per_rev, rev,
                  IF rev = "part_000"
                  THEN rpm_to_duty_period_rev0(rpm, pulses_per_rev)
                  ELSE rpm_to_duty_period(rpm, pulses_per_rev))
    /\ UNCHANGED << psvars, fwvars, trajvars >>

DutyNext ==
    \/ \E rev \in Revisions, hz \in DutyHzInputs : HzToDuty(rev, hz)
    \/ \E rev \in Revisions, period_ns \in DutyPeriodInputs :
          PeriodToDuty(rev, period_ns)
    \/ \E rev \in Revisions, rpm \in DutyRpmInputs,
          pulses_per_rev \in DutyPprInputs :
          RpmToDuty(rev, rpm, pulses_per_rev)

DutySpec == Init /\ [][DutyNext]_vars

(***************************************************************************)
(* Properties of the time model.                                           *)
(***************************************************************************)
\* C29: in every revision hz_to_duty_period gives 0 exactly for hz <= 0, and
\* at least 1 for every hz > 0 however large against f_sys: no valid speed
\* is encoded as the duty 0 that marks the end of a stream.
C29_DutyZeroOnlyForNoSpeed ==
    last.op = "hz_to_duty_period" =>
        /\ (last.ret = 0) <=> (last.a <= 0)
        /\ last.a > 0 => last.ret >= 1

\* the duty the revision computes for a period of 1/hz seconds, hz a
\* divisor of 10^9, and for a speed of hz
PeriodDuty(rev, hz) ==
    IF rev = "part_000" THEN period_to_duty_period_rev0(1000000000 \div hz)
    ELSE period_to_duty_period(1000000000 \div hz)

HzDuty(rev, hz) ==
    IF rev = "part_000" THEN hz_to_duty_period_rev0(hz)
    ELSE hz_to_duty_period(hz)

\* C30: within one revision hz_to_duty_period and period_to_duty_period use
\* the same K: for every hz > 0 whose period is a whole number of system
\* cycles hz_to_duty_period(hz) = period_to_duty_period(1/hz), and
\* rpm_to_duty_period(rpm, ppr) = hz_to_duty_period(rpm * ppr / 60).
C30_OneTimeModel ==
    /\ (last.op = "hz_to_duty_period" /\ last.a > 0 /\ F_SYS % last.a = 0) =>
          last.ret = PeriodDuty(last.c, last.a)
    /\ (last.op = "rpm_to_duty_period" /\ last.a > 0 /\ last.b > 0) =>
          last.ret = HzDuty(last.c, (last.a * last.b) \div 60)

(***************************************************************************)
(* The wrap and level pwm_motor_run programs, for step rates from 1 Hz to  *)
(* beyond the system clock.                                                *)
(***************************************************************************)
WrapHzInputs ==
    {1, 7, 8, 1500000, 10000000, 40000000, 62500000, F_SYS,
     200000000, 250000000, 1000000000}

PwmConfigure(freq_hz, clk_div) ==
    /\ last' = Op("pwm_configure", freq_hz, clk_div,
                  pwm_level(pwm_wrap(F_SYS, clk_div, freq_hz)),
                  pwm_wrap(F_SYS, clk_div, freq_hz))
    /\ UNCHANGED << psvars, fwvars, trajvars >>

WrapNext ==
    \E freq_hz \in WrapHzInputs :
        \E clk_div \in choose_clk_div(F_SYS, freq_hz) :
            PwmConfigure(freq_hz, clk_div)

WrapSpec == Init /\ [][WrapNext]_vars

\* f_sys / (div * hz) - 1 in the integers, clamped into [2, 65535]; div in
\* sixteenths
MathWrap(clk_div, hz) ==
    LET w == ((F_SYS * 16) \div clk_div) \div hz - 1
    IN  IF w < 2 THEN 2 ELSE IF w > 65535 THEN 65535 ELSE w

\* C31: for every hz >= 1, also above f_sys, pwm_motor_run programs the
\* wrap f_sys / (div * hz) - 1 clamped into [2, 65535] and the level
\* wrap / 2; with the divider fixed the wrap does not grow when hz grows.
C31_WrapClamped ==
    last.op = "pwm_configure" =>
        /\ last.ret = MathWrap(last.b, last.a)
        /\ last.c = last.ret \div 2
        /\ \A hz \in WrapHzInputs :
              (hz >= last.a /\ last.b \in choose_clk_div(F_SYS, hz)) =>
                  pwm_wrap(F_SYS, last.b, hz) <= last.ret

(***************************************************************************)
(* The S-curve emitter applied to short and long strokes.                  *)
(***************************************************************************)
CeVmaxInputs == {0, 1, 1000}

CeConfigToPio(v_max, total_steps, ramp_steps_per_side) ==
    /\ last' = Op("ce_config_to_pio", v_max, total_steps, ramp_steps_per_side,
                  ce_config_to_pio(v_max, total_steps, ramp_steps_per_side))
    /\ UNCHANGED << psvars, fwvars, trajvars >>

CeNext ==
    \E v_max \in CeVmaxInputs, total_steps \in 0 .. MaxTotal,
       ramp_steps_per_side \in 0 .. MaxRamp :
        CeConfigToPio(v_max, total_steps, ramp_steps_per_side)

CeSpec == Init /\ [][CeNext]_vars

\* the last call was ce_config_to_pio and it returned a sequence
CeReturned == last.op = "ce_config_to_pio" /\ last.ret.alloc # 0

\* C32: every sequence ce_config_to_pio returns has the end marker (0, 0)
\* exactly once, as its last pair and inside the allocated buffer; every
\* pair before it has steps >= 1 and a delay that is not the reserved 0.
C32_EndMarkerOnlyLast ==
    CeReturned =>
        LET cmds == last.ret.cmds
        IN  /\ Len(cmds) >= 1
            /\ Len(cmds) <= last.ret.alloc
            /\ cmds[Len(cmds)] = << 0, 0 >>
            /\ \A k \in 1 .. (Len(cmds) - 1) :
                  cmds[k][2] >= 1 /\ cmds[k][1] # 0

\* a short stroke whose scaled peak speed rounds to 0 and is clamped to 1
C32_Witness ==
    /\ CeReturned
    /\ last.a = 1
    /\ last.c = MaxRamp
    /\ Len(last.ret.cmds) = 3
    /\ last.ret.cmds[1][1] = speed_hz_to_delay(1)

\* the steps of the pairs from..to of a sequence of commands, added up
StepsOf(cmds, from, to) ==
    ce_sum([i \in 0 .. (to - from) |-> cmds[from + i][2]], to - from + 1)

\* C38: for v_max >= 1 and total_steps >= 1 the steps of the sequence
\* ce_config_to_pio returns add up to total_steps: the acceleration part
\* adds up to Sr, the cruise part, if any, is total_steps - 2 * Sr, and the
\* deceleration part is the acceleration part in reverse order.
C38_StepsConserved ==
    CeReturned =>
        LET cmds   == last.ret.cmds
            n      == Len(cmds) - 1
            short  == last.c = 0 \/ last.b <= 2 * last.c
            Sr     == IF short THEN last.b \div 2 ELSE last.c
            cruise == IF short THEN 0 ELSE last.b - 2 * Sr
            k      == (n - (IF cruise > 0 THEN 1 ELSE 0)) \div 2
        IN  /\ StepsOf(cmds, 1, n) = last.b
            /\ StepsOf(cmds, 1, k) = Sr
            /\ cruise > 0 => cmds[k + 1][2] = cruise
            /\ \A j \in 1 .. k : cmds[n + 1 - j] = cmds[j]

====
